---- MODULE Spec2Model ----
(***************************************************************************)
(* Ingestion / sync / enrichment engine of MedAiTools.                     *)
(*                                                                         *)
(* Two revisions of the engine live side by side in the repository:        *)
(*   - the PostgreSQL revision: PGMedrXivScraper.py + PersistentStorage.py *)
(*   - the TinyDB revision:     MedrXivScraper.py   + DBBackend.py         *)
(* Both are modelled.  Dates 'YYYY-MM-DD' are day ordinals 1..Today.       *)
(***************************************************************************)
EXTENDS Integers, Sequences, FiniteSets, TLC

\* ------------------------------------------------------------------------
\* Bounds of the model
\* ------------------------------------------------------------------------
MaxVariant == 2
Today == 3
PageSize == 1
MaxDaysBack == 2
MaxTotal == 5
MaxPageSize == 3

\* Python's None, comparable with the tagged values below
None == [t |-> "none"]
NoError == "none"

\* a DOI is the tuple of its characters' tokens, so that '/' can be replaced
DoiA == <<"10.1101", "/", "a">>
DoiB == <<"10.1101", "/", "b">>
Dois == {DoiA, DoiB}
Versions == {1, 2}
Variants == 1..MaxVariant
Days == 1..Today

Min(a, b) == IF a < b THEN a ELSE b
Max(a, b) == IF a > b THEN a ELSE b

RECURSIVE SeqToSet(_)
SeqToSet(s) == IF s = <<>> THEN {} ELSE {Head(s)} \cup SeqToSet(Tail(s))

\* ------------------------------------------------------------------------
\* Publication records as the catalog API delivers them (a dict with the
\* 14 keys listed in the docstring of fetch_medrxiv_publications).
\* The variant stands for the content of every mutable text column.
\* ------------------------------------------------------------------------
MutableColumns ==
    {"title", "authors", "author_corresponding",
     "author_corresponding_institution", "date", "type", "license",
     "category", "jatsxml", "abstract", "published", "server"}

IdentityColumns == {"doi", "version"}

Columns == IdentityColumns \cup MutableColumns

RawRecord(doi, version, day, variant) ==
    [doi |-> doi, version |-> version, date |-> day,
     title |-> <<"title", variant>>,
     authors |-> <<"authors", variant>>,
     author_corresponding |-> <<"author_corresponding", variant>>,
     author_corresponding_institution |-> <<"institution", variant>>,
     type |-> <<"type", variant>>,
     license |-> <<"license", variant>>,
     category |-> <<"category", variant>>,
     jatsxml |-> <<"jatsxml", variant>>,
     abstract |-> <<"abstract", variant>>,
     published |-> <<"published", variant>>,
     server |-> "medrxiv"]

\* the records a caller may hand to upsert: every identity, every content
UpsertInputs ==
    {RawRecord(d, v, n, n) : d \in Dois, v \in Versions, n \in Variants}

\* ------------------------------------------------------------------------
\* State
\* ------------------------------------------------------------------------
VARIABLES
    catalog,      \* the remote catalog: its records in catalog order
    medrxiv,      \* PostgreSQL table medrxiv: set of rows (id + columns)
    medrxivSeq,   \* next value of the serial id of medrxiv
    fulltext,     \* PostgreSQL table fulltext: rows (id_publication, pdf_filename)
    files,        \* names of the PDF files in the publication directory
    docs,         \* TinyDB table of medrxiv.json: documents, doc_id = index
    summaries,    \* PostgreSQL table summaries: rows in insertion order
    calls,        \* the last two store calls: <<older, newer>>
    run           \* the last sync run: its arguments and what it did

vars == <<catalog, medrxiv, medrxivSeq, fulltext, files, docs, summaries,
         calls, run>>

storeVars == <<medrxiv, medrxivSeq>>
assetVars == <<fulltext, files>>
tinyVars == <<docs>>
enrichVars == <<summaries>>

NoCall == [op |-> "none"]
NoRun == [op |-> "none"]

\* ------------------------------------------------------------------------
\* PublicationStorage.upsert  (PersistentStorage.py 468-505)
\* ------------------------------------------------------------------------
Conflicting(rows, p) ==
    {e \in rows : e.doi = p.doi /\ e.version = p.version}

\* value of column c in the proposed row: the dict's value, or NULL
Excluded(p, c) == IF c \in DOMAIN p THEN p[c] ELSE None

\* ON CONFLICT (doi, version) DO NOTHING: the first write would win
UpdatedRowKeepFirst(e, p) == e

\* ON CONFLICT (doi, version) DO UPDATE SET <every mutable column> = EXCLUDED.*
UpdatedRow(e, p) ==
    [c \in DOMAIN e |->
        IF c \in MutableColumns THEN Excluded(p, c) ELSE e[c]]

InsertedRow(p, id) ==
    [c \in Columns \cup {"id"} |->
        IF c = "id" THEN id ELSE Excluded(p, c)]

\* the rows of the doi are deleted before the insert
UpsertStmtReplaceDoi(rows, seq, p) ==
    [rows |-> {e \in rows : e.doi # p.doi} \cup {InsertedRow(p, seq)},
     seq |-> seq + 1, id |-> seq]

\* the statement's effect: [rows, seq, id]
UpsertStmt(rows, seq, p) ==
    LET hit == Conflicting(rows, p) IN
    IF hit # {}
    THEN LET e == CHOOSE e \in hit : TRUE IN
         [rows |-> (rows \ {e}) \cup {UpdatedRow(e, p)},
          seq |-> seq, id |-> e.id]
    ELSE [rows |-> rows \cup {InsertedRow(p, seq)},
          seq |-> seq + 1, id |-> seq]

Upsert(p) ==
    LET r == UpsertStmt(medrxiv, medrxivSeq, p) IN
    /\ medrxiv' = r.rows
    /\ medrxivSeq' = r.seq
    /\ calls' = <<calls[2],
                  [op |-> "upsert", arg |-> p, ret |-> r.id,
                   changed |-> r.rows # medrxiv]>>
    /\ UNCHANGED <<catalog, assetVars, tinyVars, enrichVars, run>>

\* ------------------------------------------------------------------------
\* PublicationStorage.bulk_upsert  (PersistentStorage.py 508-533)
\* One "(%s)" placeholder is written per publication while every value of
\* every publication is passed as a parameter: the driver refuses the
\* statement unless the two numbers agree, and nothing is stored.
\* ------------------------------------------------------------------------
RECURSIVE NumValues(_)
NumValues(ps) ==
    IF ps = <<>> THEN 0
    ELSE Cardinality(DOMAIN Head(ps)) + NumValues(Tail(ps))

BulkPlaceholders(ps) == Len(ps)

BulkUpsertRaises(ps) == ps # <<>> /\ BulkPlaceholders(ps) # NumValues(ps)

BulkSamples == {p \in UpsertInputs : p.version = 1 /\ p.date = 1}

BulkInputs ==
    {<<>>} \cup {<<p>> : p \in BulkSamples}
           \cup {<<p, q>> \in BulkSamples \X BulkSamples : p.doi # q.doi}

BulkUpsert(ps) ==
    /\ ps = <<>> \/ BulkUpsertRaises(ps)
    /\ calls' = <<calls[2],
                  [op |-> "bulk_upsert", n |-> Len(ps),
                   ret |-> IF ps = <<>> THEN <<>> ELSE "ProgrammingError"]>>
    /\ UNCHANGED <<catalog, storeVars, assetVars, tinyVars, enrichVars, run>>

\* the stores as the constructors leave them
EmptyStores ==
    /\ medrxiv = {}
    /\ medrxivSeq = 1
    /\ fulltext = {}
    /\ files = {}
    /\ docs = <<>>
    /\ summaries = <<>>
    /\ calls = <<NoCall, NoCall>>
    /\ run = NoRun

InitUpsert ==
    /\ catalog = <<>>
    /\ EmptyStores

NextUpsert ==
    \/ \E p \in UpsertInputs : Upsert(p)
    \/ \E ps \in BulkInputs : BulkUpsert(ps)

SpecUpsert == InitUpsert /\ [][NextUpsert]_vars

\* ------------------------------------------------------------------------
\* C1: upsert(r1) followed by upsert(r2) with the same (doi, version) leaves
\* exactly one row for that identity, whose mutable columns are those of r2;
\* both calls return the same id; and when r1 = r2 the second call changes
\* no stored row.
\* ------------------------------------------------------------------------
SameIdentity(p, q) == p.doi = q.doi /\ p.version = q.version

TwoUpsertsSameIdentity ==
    /\ calls[1].op = "upsert"
    /\ calls[2].op = "upsert"
    /\ SameIdentity(calls[1].arg, calls[2].arg)

C1_UpsertTwiceSecondWins ==
    TwoUpsertsSameIdentity =>
        LET r2 == calls[2].arg
            hit == Conflicting(medrxiv, r2) IN
        /\ Cardinality(hit) = 1
        /\ \A e \in hit : \A c \in MutableColumns : e[c] = r2[c]
        /\ calls[1].ret = calls[2].ret
        /\ (calls[1].arg = r2 => ~calls[2].changed)

C1_Witness ==
    /\ TwoUpsertsSameIdentity
    /\ calls[1].arg # calls[2].arg
    /\ Cardinality(medrxiv) >= 2

\* ========================================================================
\* The remote catalog (api.medrxiv.org/details/medrxiv/{from}/{to}/{cursor})
\* ========================================================================
MasterCatalog ==
    << RawRecord(DoiA, 1, 1, 1), RawRecord(DoiB, 1, 2, 1),
       RawRecord(DoiA, 2, 3, 1), RawRecord(DoiB, 2, 3, 1) >>

Catalogs == {SubSeq(MasterCatalog, 1, n) : n \in 0..Len(MasterCatalog)}

\* a Python str 'YYYY-MM-DD' and a datetime.date are different values
Str(d) == [t |-> "str", d |-> d]
DateObj(d) == [t |-> "date", d |-> d]

\* f"{from_date}" inside the URL: both kinds print as YYYY-MM-DD, None as "None"
UrlDay(x) == IF x.t = "none" THEN None ELSE Str(x.d)

RECURSIVE InRange(_, _, _)
InRange(cat, from, to) ==
    IF cat = <<>> THEN <<>>
    ELSE IF from <= Head(cat).date /\ Head(cat).date <= to
         THEN <<Head(cat)>> \o InRange(Tail(cat), from, to)
         ELSE InRange(Tail(cat), from, to)

\* the records the server holds for the interval; an interval that is no
\* pair of dates ("None") matches nothing
CatalogQuery(cat, from, to) ==
    IF from.t = "none" \/ to.t = "none" THEN <<>>
    ELSE InRange(cat, from.d, to.d)

\* one page request: [status, collection, messages]
Response(q, ps, cursor, ok) ==
    IF ~ok THEN [status |-> 500, collection |-> <<>>, messages |-> <<>>]
    ELSE LET page == SubSeq(q, cursor + 1, Min(cursor + ps, Len(q))) IN
         [status |-> 200, collection |-> page,
          messages |-> <<[count |-> Len(page), total |-> Len(q)]>>]

\* ========================================================================
\* PostgreSQL revision: PGMedrXivScraper.MedrXivScraper
\* ========================================================================

\* PublicationStorage.latest_stored (PersistentStorage.py 455-465):
\* SELECT MAX(TO_DATE(date, ...)) is a date value, or NULL on no rows
LatestStored(rows, server) ==
    LET ds == {e.date : e \in {x \in rows : x.server = server}} IN
    IF ds = {} THEN None
    ELSE DateObj(CHOOSE m \in ds : \A d \in ds : d <= m)

\* publication['doi'].replace('/', '-') + ".pdf"
PdfName(doi) ==
    [i \in DOMAIN doi |-> IF doi[i] = "/" THEN "-" ELSE doi[i]] \o <<".pdf">>

\* INSERT INTO fulltext ... ON CONFLICT (id_publication) DO UPDATE
UpsertFulltext(ft, pdf_name, id) ==
    {x \in ft : x.id_publication # id}
        \cup {[id_publication |-> id, pdf_filename |-> pdf_name]}

\* the download is attempted whether or not the file is there
FetchPdfAlways(st, doi, id, upsert, netOk) ==
    LET pdf_name == PdfName(doi) IN
    IF ~netOk
    THEN [st |-> st, ret |-> None, requested |-> TRUE]
    ELSE [st |-> [st EXCEPT
                    !.files = @ \cup {pdf_name},
                    !.fulltext = IF upsert
                                 THEN UpsertFulltext(@, pdf_name, id)
                                 ELSE @],
          ret |-> [t |-> "path", name |-> pdf_name], requested |-> TRUE]

\* fetch_pdf_from_medrXiv (PGMedrXivScraper.py 148-189) on the store
\* st = [rows, seq, fulltext, files]; netOk: does the PDF request succeed
FetchPdfFromMedrXiv(st, doi, id, upsert, netOk) ==
    LET pdf_name == PdfName(doi)
        isfile == pdf_name \in st.files IN
    IF ~isfile /\ ~netOk
    THEN [st |-> st, ret |-> None, requested |-> TRUE]
    ELSE [st |-> [st EXCEPT
                    !.files = @ \cup {pdf_name},
                    !.fulltext = IF upsert
                                 THEN UpsertFulltext(@, pdf_name, id)
                                 ELSE @],
          ret |-> [t |-> "path", name |-> pdf_name], requested |-> ~isfile]

\* the "Inserting into database" loop of fetch_from_medrXiv (83-87)
RECURSIVE InsertIntoDatabase(_, _, _, _)
InsertIntoDatabase(st, publications, fetch_pdfs, pdfOk) ==
    IF publications = <<>> THEN st
    ELSE LET p == Head(publications)
             u == UpsertStmt(st.rows, st.seq, p)
             st1 == [st EXCEPT !.rows = u.rows, !.seq = u.seq]
             st2 == IF fetch_pdfs
                    THEN FetchPdfFromMedrXiv(st1, p.doi, u.id, TRUE,
                                             p.doi \in pdfOk).st
                    ELSE st1
         IN InsertIntoDatabase(st2, Tail(publications), fetch_pdfs, pdfOk)

\* "no more results" test of the PostgreSQL revision (line 95)
PGNoMoreResults(cursor, all_publications, publications, message) ==
    cursor + Len(all_publications) >= message.total

\* the page loop of fetch_from_medrXiv (72-103): request number req fails
\* when req = failAt.  Result: what was accumulated and how it ended.
RECURSIVE FetchFromMedrXivLoop(_, _, _, _, _, _)
FetchFromMedrXivLoop(q, ps, cursor, all, req, failAt) ==
    LET response == Response(q, ps, cursor, req # failAt) IN
    IF response.status # 200
    THEN [all |-> all, requests |-> req, failed |-> TRUE]
    ELSE LET publications == response.collection
             all_publications == all \o publications
             messages == response.messages
         IN IF messages = <<>>
            THEN [all |-> all_publications, requests |-> req, failed |-> FALSE]
            ELSE IF PGNoMoreResults(cursor, all_publications, publications,
                                    messages[1])
            THEN [all |-> all_publications, requests |-> req, failed |-> FALSE]
            ELSE FetchFromMedrXivLoop(q, ps, cursor + Len(publications),
                                      all_publications, req + 1, failAt)

\* fetch_from_medrXiv(from_date, to_date, fetch_pdfs) (63-103)
FetchFromMedrXiv(st, cat, ps, from_date, to_date, fetch_pdfs, failAt, pdfOk) ==
    LET q == CatalogQuery(cat, UrlDay(from_date), UrlDay(to_date))
        loop == FetchFromMedrXivLoop(q, ps, 0, <<>>, 1, failAt) IN
    [st |-> InsertIntoDatabase(st, loop.all, fetch_pdfs, pdfOk),
     all |-> loop.all, requests |-> loop.requests, failed |-> loop.failed]

PGStore == [rows |-> medrxiv, seq |-> medrxivSeq,
            fulltext |-> fulltext, files |-> files]

SetPGStore(st) ==
    /\ medrxiv' = st.rows
    /\ medrxivSeq' = st.seq
    /\ fulltext' = st.fulltext
    /\ files' = st.files

\* fetch_latest_publications(days, start_date, fetch_pdfs) (106-127)
LatestStartDate(days, start_date, rows) ==
    IF days = 0 /\ start_date = None THEN LatestStored(rows, "medrxiv")
    ELSE IF days > 0 THEN Str(Today - days)
    ELSE start_date

FetchLatestPublications(days, start_date, fetch_pdfs, failAt, pdfOk) ==
    LET today == Str(Today)
        start == LatestStartDate(days, start_date, medrxiv)
        queried == start # today
        f == FetchFromMedrXiv(PGStore, catalog, PageSize, start, today, fetch_pdfs,
                              failAt, pdfOk) IN
    /\ SetPGStore(IF queried THEN f.st ELSE PGStore)
    /\ run' = [op |-> "fetch_latest_publications",
               days |-> days, start_date |-> start_date,
               fetch_pdfs |-> fetch_pdfs,
               latest |-> LatestStored(medrxiv, "medrxiv"),
               queried |-> queried,
               from |-> IF queried THEN start ELSE None,
               to |-> IF queried THEN today ELSE None,
               failed |-> queried /\ f.failed,
               raised |-> NoError]
    /\ UNCHANGED <<catalog, tinyVars, enrichVars, calls>>

\* fetch_medrxiv_publications(from_date, to_date) (272-309).
\* datetime.strptime accepts a str only: the date value that latest_stored
\* returns for a non-empty store raises TypeError.
FetchMedrxivPublications(from_date, to_date, failAt, pdfOk) ==
    LET stored == LatestStored(medrxiv, "medrxiv")
        latest_stored == IF stored = None THEN from_date ELSE stored
        raises == latest_stored.t # "str"
        queried == ~raises /\ to_date.d > latest_stored.d
        f == FetchFromMedrXiv(PGStore, catalog, PageSize, latest_stored, to_date, TRUE,
                              failAt, pdfOk) IN
    /\ SetPGStore(IF queried THEN f.st ELSE PGStore)
    /\ run' = [op |-> "fetch_medrxiv_publications",
               days |-> 0, start_date |-> from_date,
               fetch_pdfs |-> TRUE,
               latest |-> stored,
               queried |-> queried,
               from |-> IF queried THEN latest_stored ELSE None,
               to |-> IF queried THEN to_date ELSE None,
               failed |-> queried /\ f.failed,
               raised |-> IF raises THEN "TypeError" ELSE NoError]
    /\ UNCHANGED <<catalog, tinyVars, enrichVars, calls>>

StartDates == {None} \cup {Str(d) : d \in Days}
FailAts == 0..3

Init ==
    /\ catalog \in Catalogs
    /\ EmptyStores

Next ==
    \/ \E days \in 0..MaxDaysBack, start_date \in StartDates,
          fetch_pdfs \in BOOLEAN, failAt \in FailAts :
          \E pdfOk \in IF fetch_pdfs THEN SUBSET Dois ELSE {{}} :
          FetchLatestPublications(days, start_date, fetch_pdfs, failAt, pdfOk)
    \/ \E from_date \in {Str(d) : d \in Days}, failAt \in FailAts,
          pdfOk \in SUBSET Dois :
          FetchMedrxivPublications(from_date, Str(Today), failAt, pdfOk)

Spec == Init /\ [][Next]_vars

\* ------------------------------------------------------------------------
\* Properties of the sync runs (PostgreSQL revision)
\* ------------------------------------------------------------------------
IsRun(r) == r.op # "none"

\* the run sent catalog requests, all of them succeeded, nothing was raised
CompletedOk(r) ==
    IsRun(r) /\ r.queried /\ ~r.failed /\ r.raised = NoError

SameCall(r1, r2) ==
    /\ r1.op = r2.op
    /\ r1.days = r2.days
    /\ r1.start_date = r2.start_date
    /\ r1.fetch_pdfs = r2.fetch_pdfs

Stored(rows, p) ==
    \E e \in rows : \A c \in Columns : e[c] = p[c]

\* C3: after a sync run whose catalog requests all succeeded, running the
\* same sync again against the unchanged catalog, again with every request
\* succeeding, leaves the set of stored publication rows as it was.
C3_ResyncAddsNothing ==
    [][(CompletedOk(run) /\ CompletedOk(run') /\ SameCall(run, run'))
          => medrxiv' = medrxiv]_vars

\* C4: when a sync run suffered a catalog fetch failure and the re-run of
\* the same sync has all its requests succeed, every catalog record dated
\* from the first run's start date on is stored after the re-run (so no day
\* of that range is left incomplete behind the watermark).
C4_RerunAfterFailureCompletes ==
    [][(IsRun(run) /\ run.failed /\ run.from.t # "none"
            /\ CompletedOk(run') /\ SameCall(run, run'))
          => \A i \in DOMAIN catalog :
                catalog[i].date >= run.from.d => Stored(medrxiv', catalog[i])]_vars

\* C8: the start date of a sync is the caller's override when one is passed,
\* else the latest stored date when the store holds records, else the
\* caller's default; and the catalog is queried from that day (included)
\* through today.
Overrides(r) ==
    IF r.op = "fetch_latest_publications"
    THEN ({r.start_date} \ {None})
            \cup (IF r.days > 0 THEN {Str(Today - r.days)} ELSE {})
    ELSE {}

DefaultStart(r) ==
    IF r.op = "fetch_medrxiv_publications" THEN {r.start_date} ELSE {}

ExpectedStart(r) ==
    IF Overrides(r) # {} THEN Overrides(r)
    ELSE IF r.latest # None THEN {Str(r.latest.d)}
    ELSE DefaultStart(r)

C8_StartDateRule ==
    (IsRun(run) /\ ExpectedStart(run) # {}) =>
        /\ run.raised = NoError
        /\ run.queried
        /\ UrlDay(run.from) \in ExpectedStart(run)
        /\ UrlDay(run.to) = Str(Today)

\* ========================================================================
\* TinyDB revision: MedrXivScraper.MedrXivScraper (MedrXivScraper.py)
\* ========================================================================

\* TinyDB.insert_multiple: every dict is appended under a fresh doc_id
RECURSIVE InsertMultiple(_, _)
InsertMultiple(table, documents) ==
    IF documents = <<>> THEN table
    ELSE InsertMultiple(Append(table, Head(documents)), Tail(documents))

\* "no more results" test of the TinyDB revision (lines 94-95): the total is
\* read from the message's 'count', the number of records of this page
TinyNoMoreResults(cursor, all_publications, publications, message) ==
    cursor + Len(publications) >= message.count

Unbound == [t |-> "unbound"]

\* the page loop of fetch_from_server (79-99); publications is the local
\* variable that holds the last page, unbound until a request succeeded
RECURSIVE FetchFromServerLoop(_, _, _, _, _, _, _)
FetchFromServerLoop(q, ps, cursor, all, last, req, failAt) ==
    LET response == Response(q, ps, cursor, req # failAt) IN
    IF response.status # 200
    THEN [all |-> all, publications |-> last, requests |-> req,
          failed |-> TRUE]
    ELSE LET publications == response.collection
             all_publications == all \o publications
             messages == response.messages
         IN IF messages = <<>>
               \/ TinyNoMoreResults(cursor, all_publications, publications,
                                    messages[1])
            THEN [all |-> all_publications,
                  publications |-> [t |-> "list", v |-> publications],
                  requests |-> req, failed |-> FALSE]
            ELSE FetchFromServerLoop(q, ps, cursor + Len(publications),
                                     all_publications,
                                     [t |-> "list", v |-> publications],
                                     req + 1, failAt)

\* fetch_from_server(date) (71-103): everything accumulated is inserted,
\* then the local variable publications is returned
FetchFromServer(table, cat, ps, date, failAt) ==
    LET q == CatalogQuery(cat, Str(date), Str(date))
        loop == FetchFromServerLoop(q, ps, 0, <<>>, Unbound, 1, failAt) IN
    [table |-> InsertMultiple(table, loop.all),
     requests |-> loop.requests, failed |-> loop.failed,
     raised |-> IF loop.publications = Unbound
                THEN "UnboundLocalError" ELSE NoError,
     ret |-> IF loop.publications = Unbound THEN <<>>
             ELSE loop.publications.v]

\* ========================================================================
\* CatalogClient on its own: one fetch of one day, for every total, page
\* size and failing request, by either revision
\* ========================================================================
ClientCatalog(n) == [i \in 1..n |-> RawRecord(DoiA, i, 1, 1)]

ClientInputs ==
    [op : {"input"}, impl : {"pg", "tinydb"}, ps : 1..MaxPageSize,
     failAt : 0..MaxTotal]

InitClient ==
    /\ catalog \in {ClientCatalog(n) : n \in 0..MaxTotal}
    /\ medrxiv = {}
    /\ medrxivSeq = 1
    /\ fulltext = {}
    /\ files = {}
    /\ docs = <<>>
    /\ summaries = <<>>
    /\ calls = <<NoCall, NoCall>>
    /\ run \in ClientInputs

ClientFetchPG ==
    /\ run.op = "input"
    /\ run.impl = "pg"
    /\ LET f == FetchFromMedrXiv(PGStore, catalog, run.ps, Str(1), Str(1),
                                 FALSE, run.failAt, {}) IN
       /\ SetPGStore(f.st)
       /\ run' = [op |-> "fetch", impl |-> "pg", ps |-> run.ps,
                  failAt |-> run.failAt, requests |-> f.requests,
                  failed |-> f.failed, raised |-> NoError, ret |-> f.all]
    /\ UNCHANGED <<catalog, tinyVars, enrichVars, calls>>

ClientFetchTiny ==
    /\ run.op = "input"
    /\ run.impl = "tinydb"
    /\ LET f == FetchFromServer(docs, catalog, run.ps, 1, run.failAt) IN
       /\ docs' = f.table
       /\ run' = [op |-> "fetch", impl |-> "tinydb", ps |-> run.ps,
                  failAt |-> run.failAt, requests |-> f.requests,
                  failed |-> f.failed, raised |-> f.raised, ret |-> f.ret]
    /\ UNCHANGED <<catalog, storeVars, assetVars, enrichVars, calls>>

NextClient == ClientFetchPG \/ ClientFetchTiny

SpecClient == InitClient /\ [][NextClient]_vars

\* C5: when every page request succeeds, the fetch returns all the records
\* the catalog reports for the day, each once and in catalog order, for any
\* total and any page size.
C5_FetchReturnsAllRecords ==
    (run.op = "fetch" /\ ~run.failed) =>
        /\ run.raised = NoError
        /\ run.ret = catalog

\* C6: when a page request fails, no further request is issued, nothing is
\* raised and exactly the records of the pages before it are returned.
PagesBefore(q, ps, req) == SubSeq(q, 1, Min((req - 1) * ps, Len(q)))

C6_FailureReturnsAccumulated ==
    (run.op = "fetch" /\ run.failed) =>
        /\ run.requests = run.failAt
        /\ run.raised = NoError
        /\ run.ret = PagesBefore(catalog, run.ps, run.failAt)

\* ========================================================================
\* TinyDB revision: the sync run over a range of days
\* (MedrXivScraper.fetch_medrxiv_papers) and direct calls of
\* fetch_from_server
\* ========================================================================
MaxDocs == 3

\* split_daterange_into_days (27-40): range(delta.days + 1) is empty when
\* the end lies before the start
SplitDaterangeIntoDays(start_date, end_date) ==
    [i \in 1..Max(0, end_date - start_date + 1) |-> start_date + i - 1]

\* fetch_from_db(date) (44-52): the cached documents of that day
FetchFromDb(table, date) == SelectSeq(table, LAMBDA d : d.date = date)

\* exclude_duplicates (171-186): the loop body reads the name db, which is
\* bound neither in the method nor in the module, so the first iteration
\* raises NameError
ExcludeDuplicates(table, publications) ==
    IF publications = <<>>
    THEN [raised |-> NoError, ret |-> <<>>]
    ELSE [raised |-> "NameError", ret |-> <<>>]

\* the abstract filter of line 230: a keyword is modelled by the variant
\* whose abstract contains it
KeywordFilter(all_publications, keywords) ==
    IF keywords = {} THEN all_publications
    ELSE SelectSeq(all_publications,
                   LAMBDA p : \E k \in keywords : p.abstract = <<"abstract", k>>)

\* the per-day loop of fetch_medrxiv_papers (218-228). failDays are the days
\* whose first catalog request is answered by a non-200 status. No exception
\* is caught: what fetch_from_server or exclude_duplicates raises ends the
\* run. After exclude_duplicates returned, the PDF loop (227-228) runs over
\* its result.
RECURSIVE FetchMedrxivPapersLoop(_, _, _, _, _, _, _)
FetchMedrxivPapersLoop(table, cat, dates, failDays, all, done, failedDay) ==
    IF dates = <<>>
    THEN [table |-> table, all |-> all, processed |-> done,
          failedDay |-> failedDay, raised |-> NoError]
    ELSE LET date == Head(dates)
             cached == FetchFromDb(table, date)
         IN IF Len(cached) > 0
            THEN FetchMedrxivPapersLoop(table, cat, Tail(dates), failDays,
                                        all \o cached, Append(done, date),
                                        failedDay)
            ELSE LET f == FetchFromServer(table, cat, PageSize, date,
                                          IF date \in failDays THEN 1 ELSE 0)
                     nowFailed == IF f.failed THEN Str(date) ELSE failedDay
                 IN IF f.raised # NoError
                    THEN [table |-> f.table, all |-> all, processed |-> done,
                          failedDay |-> nowFailed, raised |-> f.raised]
                    ELSE IF Len(f.ret) > 0
                    THEN LET x == ExcludeDuplicates(f.table, f.ret) IN
                         IF x.raised # NoError
                         THEN [table |-> f.table, all |-> all,
                               processed |-> done, failedDay |-> nowFailed,
                               raised |-> x.raised]
                         ELSE FetchMedrxivPapersLoop(
                                  f.table, cat, Tail(dates), failDays,
                                  all \o x.ret, Append(done, date), nowFailed)
                    ELSE FetchMedrxivPapersLoop(
                             f.table, cat, Tail(dates), failDays, all,
                             Append(done, date), nowFailed)

\* fetch_medrxiv_papers(from_date, to_date, keywords) (190-232)
FetchMedrxivPapers(from_date, to_date, keywords, failDays) ==
    LET dates == SplitDaterangeIntoDays(from_date, to_date)
        r == FetchMedrxivPapersLoop(docs, catalog, dates, failDays, <<>>,
                                    <<>>, None)
    IN /\ Len(r.table) <= MaxDocs
       /\ docs' = r.table
       /\ run' = [op |-> "fetch_medrxiv_papers", dates |-> dates,
                  processed |-> r.processed, failedDay |-> r.failedDay,
                  raised |-> r.raised,
                  ret |-> IF r.raised = NoError
                          THEN KeywordFilter(r.all, keywords) ELSE <<>>]
       /\ UNCHANGED <<catalog, storeVars, assetVars, enrichVars, calls>>

\* a direct call of fetch_from_server(date) (71-103)
FetchFromServerCall(date, failAt) ==
    LET f == FetchFromServer(docs, catalog, PageSize, date, failAt) IN
    /\ Len(f.table) <= MaxDocs
    /\ docs' = f.table
    /\ run' = [op |-> "fetch_from_server", date |-> date,
               failed |-> f.failed, raised |-> f.raised, ret |-> f.ret]
    /\ UNCHANGED <<catalog, storeVars, assetVars, enrichVars, calls>>

InitTiny ==
    /\ catalog \in Catalogs
    /\ EmptyStores

NextTiny ==
    \/ \E from_date \in Days, to_date \in Days, keywords \in SUBSET {1},
          failDays \in SUBSET Days :
           FetchMedrxivPapers(from_date, to_date, keywords, failDays)
    \/ \E date \in Days, failAt \in 0..1 : FetchFromServerCall(date, failAt)

SpecTiny == InitTiny /\ [][NextTiny]_vars

UniqueRows(rows) ==
    \A r1, r2 \in rows : (SameIdentity(r1, r2) \/ r1.id = r2.id) => r1 = r2

UniqueDocs(table) ==
    \A i, j \in DOMAIN table : SameIdentity(table[i], table[j]) => i = j

\* C2: in every reachable state the publications table holds at most one
\* record per (doi, version) pair and no two records share an id; for the
\* TinyDB table the id is the document's position, so only the pair counts.
C2_OneRowPerIdentity == UniqueRows(medrxiv) /\ UniqueDocs(docs)

\* C7: when the catalog fetch of one day fails within a run over a range of
\* days, nothing is raised to the caller and every day of the range, the
\* later ones included, is processed in ascending order, while the documents
\* stored before stay stored.
C7_DayFailureDoesNotAbort ==
    (run.op = "fetch_medrxiv_papers" /\ run.failedDay # None) =>
        /\ run.raised = NoError
        /\ run.processed = run.dates

\* ========================================================================
\* EnrichmentPipeline, TinyDB revision: MedrXivAssistant (MedrXivScraper.py)
\* ========================================================================
Kinds == {"summary", "keywords", "abstract_critique"}

\* the external text processors (Summarizer.summarize,
\* KeywordExtractor.extract_keywords, StudyCritique.critique) when they
\* succeed: some non-empty text derived from the abstract
Processor(kind, abstract) == <<kind, abstract>>

Existing == [t |-> "existing"]
Computed == [t |-> "computed"]
Publication == [t |-> "publication"]

\* the update is left out
TinyUpdateDropped(table, doc_id, fields) == table

\* TinyDB update(fields, doc_ids=[doc_id]): the fields are merged into the
\* stored document
TinyUpdate(table, doc_id, fields) ==
    [table EXCEPT ![doc_id] = fields @@ @]

\* summarize_publication / extract_keywords / critique_study_abstract
\* (306-350). When the key is present, len(publication[key] > 0) compares
\* the artifact with 0 before force is looked at: TypeError. Otherwise the
\* processor is called, the key is set, the document is updated on commit
\* and the publication (not the artifact) is returned.
TinyStage(table, doc_id, key, commit, force) ==
    LET publication == table[doc_id] IN
    IF key \in DOMAIN publication
    THEN [table |-> table, called |-> FALSE, wrote |-> FALSE,
          raised |-> "TypeError", ret |-> None]
    ELSE LET updated == (key :> Processor(key, publication.abstract))
                            @@ publication
         IN [table |-> IF commit THEN TinyUpdate(table, doc_id, updated)
                       ELSE table,
             called |-> TRUE, wrote |-> commit, raised |-> NoError,
             ret |-> Publication]

\* one stage applied to one stored document
TinyProcess(key, doc_id, commit, force) ==
    LET r == TinyStage(docs, doc_id, key, commit, force) IN
    /\ docs' = r.table
    /\ run' = [op |-> "process", impl |-> "tinydb", kind |-> key,
               had |-> key \in DOMAIN docs[doc_id], commit |-> commit,
               force |-> force, called |-> r.called, wrote |-> r.wrote,
               raised |-> r.raised, ret |-> r.ret]
    /\ UNCHANGED <<catalog, storeVars, assetVars, enrichVars, calls>>

SummarizePublication(doc_id, commit, force) ==
    TinyProcess("summary", doc_id, commit, force)

TinyExtractKeywords(doc_id, commit, force) ==
    TinyProcess("keywords", doc_id, commit, force)

TinyCritiqueStudyAbstract(doc_id, commit, force) ==
    TinyProcess("abstract_critique", doc_id, commit, force)

\* db.search(~q.<key>.exists()): the doc_ids of the documents without key
TinyMissing(table, key) == {i \in DOMAIN table : key \notin DOMAIN table[i]}

\* summarize_all_abstracts / keywords_for_all_abstracts /
\* critique_all_abstracts (352-382) over the documents ids, in table order,
\* with commit=True and force=False; an exception ends the loop
RECURSIVE TinyProcessAll(_, _, _, _, _)
TinyProcessAll(table, ids, key, i, called) ==
    IF i > Len(table)
    THEN [table |-> table, called |-> called, raised |-> NoError]
    ELSE IF i \notin ids
    THEN TinyProcessAll(table, ids, key, i + 1, called)
    ELSE LET r == TinyStage(table, i, key, TRUE, FALSE)
             now == IF r.called THEN called \cup {i} ELSE called
         IN IF r.raised # NoError
            THEN [table |-> r.table, called |-> now, raised |-> r.raised]
            ELSE TinyProcessAll(r.table, ids, key, i + 1, now)

\* a failed request leaves pdf_path = None on the document
FetchPdfMarksFailure(st, doc_id, netOk) ==
    LET publication == st.table[doc_id]
        pdf_path == PdfName(publication.doi)
    IN IF pdf_path \in st.files \/ netOk
       THEN [st |-> [table |-> TinyUpdate(st.table, doc_id,
                                          ("pdf_path" :> pdf_path)
                                              @@ publication),
                     files |-> st.files \cup {pdf_path}],
             ret |-> [t |-> "path", name |-> pdf_path]]
       ELSE [st |-> [st EXCEPT !.table =
                        TinyUpdate(@, doc_id,
                                   ("pdf_path" :> None) @@ publication)],
             ret |-> None]

\* fetch_pdf_from_publication (118-153) on st = [table, files], files being
\* the names in ./library; netOk: does the PDF request succeed
FetchPdfFromPublication(st, doc_id, netOk) ==
    LET publication == st.table[doc_id]
        pdf_path == PdfName(publication.doi)
        updated == ("pdf_path" :> pdf_path) @@ publication
    IN IF pdf_path \in st.files
       THEN [st |-> IF "pdf_path" \notin DOMAIN publication
                    THEN [st EXCEPT !.table = TinyUpdate(@, doc_id, updated)]
                    ELSE st,
             ret |-> [t |-> "path", name |-> pdf_path]]
       ELSE IF ~netOk
       THEN [st |-> st, ret |-> None]
       ELSE [st |-> [table |-> TinyUpdate(st.table, doc_id, updated),
                     files |-> st.files \cup {pdf_path}],
             ret |-> [t |-> "path", name |-> pdf_path]]

\* fetch_all_missing_pdfs(publications) (157-167) over the documents ids
RECURSIVE FetchAllMissingPdfs(_, _, _, _)
FetchAllMissingPdfs(st, ids, i, pdfOk) ==
    IF i > Len(st.table) THEN st
    ELSE IF i \notin ids
    THEN FetchAllMissingPdfs(st, ids, i + 1, pdfOk)
    ELSE FetchAllMissingPdfs(
             FetchPdfFromPublication(st, i, st.table[i].doi \in pdfOk).st,
             ids, i + 1, pdfOk)

\* was the operation before this one a completed run of the same backfill
Again(op, impl) ==
    /\ run.op = op
    /\ run.impl = impl
    /\ run.raised = NoError

\* MedrXivAssistant.update_missing_data (384-406): critiques, summaries,
\* keywords, each over the documents found without the key, then the PDFs
TinyUpdateMissingData(pdfOk) ==
    LET before == [k \in Kinds |-> TinyMissing(docs, k)]
        missing_abstract_critiques == TinyMissing(docs, "abstract_critique")
        c == TinyProcessAll(docs, missing_abstract_critiques,
                            "abstract_critique", 1, {})
        missing_summaries == TinyMissing(c.table, "summary")
        s == IF c.raised # NoError
             THEN [table |-> c.table, called |-> {}, raised |-> c.raised]
             ELSE TinyProcessAll(c.table, missing_summaries, "summary", 1, {})
        missing_keywords == TinyMissing(s.table, "keywords")
        k == IF s.raised # NoError
             THEN [table |-> s.table, called |-> {}, raised |-> s.raised]
             ELSE TinyProcessAll(s.table, missing_keywords, "keywords", 1, {})
        missing_pdfs == TinyMissing(k.table, "pdf_path")
        f == IF k.raised # NoError
             THEN [table |-> k.table, files |-> files]
             ELSE FetchAllMissingPdfs([table |-> k.table, files |-> files],
                                      missing_pdfs, 1, pdfOk)
    IN /\ docs' = f.table
       /\ files' = f.files
       /\ run' = [op |-> "update_missing_data", impl |-> "tinydb",
                  before |-> before,
                  called |-> [kind \in Kinds |->
                                 IF kind = "abstract_critique" THEN c.called
                                 ELSE IF kind = "summary" THEN s.called
                                 ELSE k.called],
                  again |-> Again("update_missing_data", "tinydb"),
                  raised |-> k.raised]
       /\ UNCHANGED <<catalog, storeVars, fulltext, enrichVars, calls>>

\* ========================================================================
\* EnrichmentPipeline, PostgreSQL revision: MedrXivAssistant
\* (PGMedrXivScraper.py) and the summaries table (PersistentStorage.py)
\* ========================================================================
MaxSummaries == 3

\* save_summary (674-692): INSERT INTO summaries ... RETURNING id
SaveSummary(rows, summary, id_publication, id_summarymethod) ==
    Append(rows, [id |-> Len(rows) + 1, text |-> summary,
                  id_publication |-> id_publication,
                  id_summarymethod |-> id_summarymethod])

HasSummary(sums, id_publication, id_summarymethod) ==
    \E i \in DOMAIN sums :
        /\ sums[i].id_publication = id_publication
        /\ sums[i].id_summarymethod = id_summarymethod

\* missing_summaries (695-710): medrxiv LEFT JOIN summaries ... WHERE
\* s.id IS NULL
MissingSummaries(rows, sums, id_summarymethod) ==
    {m \in rows : ~HasSummary(sums, m.id, id_summarymethod)}

\* MedrXivAssistant.summarize (417-432): the test for an existing summary
\* is commented out
Summarize(sums, publication, commit, force) ==
    LET summary == Processor("summary", publication.abstract) IN
    [sums |-> IF commit THEN SaveSummary(sums, summary, publication.id, 1)
              ELSE sums,
     called |-> TRUE, wrote |-> commit, raised |-> NoError, ret |-> Computed]

\* extract_keywords / critique_study_abstract (434-464): an existing
\* non-empty artifact is returned unless force; otherwise the processor is
\* called and, on commit, self.scraper.db.update is looked up, which
\* PublicationStorage does not have
PGStage(publication, key, commit, force) ==
    IF key \in DOMAIN publication /\ Len(publication[key]) > 0 /\ ~force
    THEN [called |-> FALSE, wrote |-> FALSE, raised |-> NoError,
          ret |-> Existing]
    ELSE [called |-> TRUE, wrote |-> FALSE,
          raised |-> IF commit THEN "AttributeError" ELSE NoError,
          ret |-> IF commit THEN None ELSE Publication]

\* the publication dicts handed to a stage: rows as read from medrxiv, and
\* such a dict already carrying the key, with an artifact or an empty value
PGPublications(key) ==
    medrxiv \cup {(key :> Processor(key, m.abstract)) @@ m : m \in medrxiv}
            \cup {(key :> <<>>) @@ m : m \in medrxiv}

PGSummarize(publication, commit, force) ==
    LET r == Summarize(summaries, publication, commit, force) IN
    /\ Len(r.sums) <= MaxSummaries
    /\ summaries' = r.sums
    /\ run' = [op |-> "process", impl |-> "pg", kind |-> "summary",
               had |-> HasSummary(summaries, publication.id, 1),
               commit |-> commit, force |-> force, called |-> r.called,
               wrote |-> r.wrote, raised |-> r.raised, ret |-> r.ret]
    /\ UNCHANGED <<catalog, storeVars, assetVars, tinyVars, calls>>

PGProcess(key, publication, commit, force) ==
    LET r == PGStage(publication, key, commit, force) IN
    /\ run' = [op |-> "process", impl |-> "pg", kind |-> key,
               had |-> key \in DOMAIN publication
                       /\ Len(publication[key]) > 0,
               commit |-> commit, force |-> force, called |-> r.called,
               wrote |-> r.wrote, raised |-> r.raised, ret |-> r.ret]
    /\ UNCHANGED <<catalog, storeVars, assetVars, tinyVars, enrichVars,
                   calls>>

PGExtractKeywords(publication, commit, force) ==
    PGProcess("keywords", publication, commit, force)

PGCritiqueStudyAbstract(publication, commit, force) ==
    PGProcess("abstract_critique", publication, commit, force)

\* the loop of update_summaries (129-135) over the rows found missing, here
\* in the order of their ids
RECURSIVE UpdateSummariesLoop(_, _, _)
UpdateSummariesLoop(sums, todo, called) ==
    IF todo = {} THEN [sums |-> sums, called |-> called]
    ELSE LET publication == CHOOSE m \in todo : \A x \in todo : m.id <= x.id
             r == Summarize(sums, publication, TRUE, FALSE)
         IN UpdateSummariesLoop(r.sums, todo \ {publication},
                                called \cup {publication.id})

\* MedrXivScraper.update_summaries (129-135)
UpdateSummaries ==
    LET missing == MissingSummaries(medrxiv, summaries, 1)
        r == UpdateSummariesLoop(summaries, missing, {}) IN
    /\ Len(r.sums) <= MaxSummaries
    /\ summaries' = r.sums
    /\ run' = [op |-> "update_summaries", impl |-> "pg",
               before |-> [k \in {"summary"} |-> {m.id : m \in missing}],
               called |-> [k \in {"summary"} |-> r.called],
               again |-> Again("update_summaries", "pg"),
               raised |-> NoError]
    /\ UNCHANGED <<catalog, storeVars, assetVars, tinyVars, calls>>

\* MedrXivAssistant.update_missing_data of the PostgreSQL revision
\* (509-528): db.Query() on a PublicationStorage raises AttributeError
PGUpdateMissingData ==
    /\ run' = [op |-> "update_missing_data", impl |-> "pg",
               before |-> [k \in Kinds |-> {}],
               called |-> [k \in Kinds |-> {}],
               again |-> FALSE, raised |-> "AttributeError"]
    /\ UNCHANGED <<catalog, storeVars, assetVars, tinyVars, enrichVars,
                   calls>>

\* ------------------------------------------------------------------------
\* The assistant of either revision over an archive that a sync filled
\* ------------------------------------------------------------------------
RECURSIVE TinyIngest(_, _, _)
TinyIngest(table, cat, date) ==
    IF date > Today THEN table
    ELSE TinyIngest(FetchFromServer(table, cat, PageSize, date, 0).table,
                    cat, date + 1)

PGIngest(cat) ==
    FetchFromMedrXiv([rows |-> {}, seq |-> 1, fulltext |-> {}, files |-> {}],
                     cat, PageSize, Str(1), Str(Today), FALSE, 0, {}).st

MaxArchive == 2

InitAssistant ==
    /\ catalog \in {c \in Catalogs : Len(c) <= MaxArchive}
    /\ fulltext = {}
    /\ files = {}
    /\ summaries = <<>>
    /\ calls = <<NoCall, NoCall>>
    /\ run = NoRun
    /\ \/ /\ docs = TinyIngest(<<>>, catalog, 1)
          /\ medrxiv = {}
          /\ medrxivSeq = 1
       \/ /\ docs = <<>>
          /\ medrxiv = PGIngest(catalog).rows
          /\ medrxivSeq = PGIngest(catalog).seq

NextAssistant ==
    \/ \E doc_id \in DOMAIN docs, commit \in BOOLEAN, force \in BOOLEAN :
           SummarizePublication(doc_id, commit, force)
    \/ \E doc_id \in DOMAIN docs, commit \in BOOLEAN, force \in BOOLEAN :
           TinyExtractKeywords(doc_id, commit, force)
    \/ \E doc_id \in DOMAIN docs, commit \in BOOLEAN, force \in BOOLEAN :
           TinyCritiqueStudyAbstract(doc_id, commit, force)
    \/ \E pdfOk \in SUBSET Dois : TinyUpdateMissingData(pdfOk)
    \/ \E publication \in medrxiv, commit \in BOOLEAN, force \in BOOLEAN :
           PGSummarize(publication, commit, force)
    \/ \E publication \in PGPublications("keywords"), commit \in BOOLEAN,
          force \in BOOLEAN :
           PGExtractKeywords(publication, commit, force)
    \/ \E publication \in PGPublications("abstract_critique"),
          commit \in BOOLEAN, force \in BOOLEAN :
           PGCritiqueStudyAbstract(publication, commit, force)
    \/ UpdateSummaries
    \/ PGUpdateMissingData

SpecAssistant == InitAssistant /\ [][NextAssistant]_vars

IsBackfill(r) == r.op \in {"update_missing_data", "update_summaries"}

BackfillKinds(r) == DOMAIN r.called

\* missingEnrichment(kind) in the current state, for the revision of run r
MissingEnrichment(r, kind) ==
    IF r.impl = "pg"
    THEN {m.id : m \in MissingSummaries(medrxiv, summaries, 1)}
    ELSE TinyMissing(docs, kind)

C10_ExistingArtifactKept ==
    (run.op = "process" /\ run.had /\ ~run.force) =>
        /\ run.raised = NoError
        /\ run.ret = Existing
        /\ ~run.called
        /\ ~run.wrote

\* C11: in every reachable state the store holds at most one summary row
\* per publication and summary method, whatever stages and backfills ran
\* with whatever force and commit flags.
C11_OneSummaryPerPublication ==
    \A i, j \in DOMAIN summaries :
        (/\ summaries[i].id_publication = summaries[j].id_publication
         /\ summaries[i].id_summarymethod = summaries[j].id_summarymethod)
            => i = j

\* ========================================================================
\* The anti-join queries on their own: missing_summaries of the PostgreSQL
\* revision and db.search(~q.<key>.exists()) of the TinyDB revision, over
\* archives in which a doi may have several versions
\* ========================================================================

\* PublicationStorage.missing_summaries(id_summarymethod=1) called
MissingSummariesCall ==
    /\ run' = [op |-> "missing", impl |-> "pg", kind |-> "summary",
               ret |-> {m.id : m \in MissingSummaries(medrxiv, summaries, 1)}]
    /\ UNCHANGED <<catalog, storeVars, assetVars, tinyVars, enrichVars,
                   calls>>

\* the search that update_missing_data issues for one kind (388, 393, 398)
TinySearchMissing(kind) ==
    /\ run' = [op |-> "missing", impl |-> "tinydb", kind |-> kind,
               ret |-> TinyMissing(docs, kind)]
    /\ UNCHANGED <<catalog, storeVars, assetVars, tinyVars, enrichVars,
                   calls>>

InitMissing ==
    /\ catalog \in Catalogs
    /\ fulltext = {}
    /\ files = {}
    /\ summaries = <<>>
    /\ calls = <<NoCall, NoCall>>
    /\ run = NoRun
    /\ \/ /\ docs = TinyIngest(<<>>, catalog, 1)
          /\ medrxiv = {}
          /\ medrxivSeq = 1
       \/ /\ docs = <<>>
          /\ LET st == InsertIntoDatabase(
                           [rows |-> {}, seq |-> 1, fulltext |-> {},
                            files |-> {}], catalog, FALSE, {})
             IN /\ medrxiv = st.rows
                /\ medrxivSeq = st.seq

NextMissing ==
    \/ \E doc_id \in DOMAIN docs : SummarizePublication(doc_id, TRUE, FALSE)
    \/ \E doc_id \in DOMAIN docs : TinyExtractKeywords(doc_id, TRUE, FALSE)
    \/ \E doc_id \in DOMAIN docs :
           TinyCritiqueStudyAbstract(doc_id, TRUE, FALSE)
    \/ \E publication \in medrxiv : PGSummarize(publication, TRUE, FALSE)
    \/ MissingSummariesCall
    \/ \E kind \in Kinds : TinySearchMissing(kind)

SpecMissing == InitMissing /\ [][NextMissing]_vars

\* the ids of the current revisions: per doi, the record of highest version
CurrentIds(impl) ==
    IF impl = "pg"
    THEN {m.id : m \in {x \in medrxiv :
                           \A y \in medrxiv :
                               y.doi = x.doi => y.version <= x.version}}
    ELSE {i \in DOMAIN docs :
             \A j \in DOMAIN docs :
                 docs[j].doi = docs[i].doi
                     => docs[j].version <= docs[i].version}

HasArtifact(impl, id, kind) ==
    IF impl = "pg" THEN HasSummary(summaries, id, 1)
    ELSE kind \in DOMAIN docs[id]

\* C12: the query for the publications missing a kind yields exactly the
\* current revisions (highest version of each doi) without an artifact of
\* that kind; a publication having a summary but no keywords is yielded for
\* keywords only, and a superseded version is never yielded.
C12_MissingIsCurrentRevisions ==
    run.op = "missing" =>
        run.ret = {id \in CurrentIds(run.impl) :
                      ~HasArtifact(run.impl, id, run.kind)}

\* ========================================================================
\* AssetFetcher: fetch_pdf_from_medrXiv / fetch_all_missing_pdfs of the
\* PostgreSQL revision, fetch_pdf_from_publication / fetch_all_missing_pdfs
\* of the TinyDB revision. calls keeps the last two single fetches, run the
\* last batch.
\* ========================================================================

\* fetch_pdf_from_medrXiv(publication, upsert) (148-189) called on a stored
\* publication; a failed request is notified in the except branch (172)
FetchPdfCall(publication, upsert, netOk) ==
    LET r == FetchPdfFromMedrXiv(PGStore, publication.doi, publication.id,
                                 upsert, netOk) IN
    /\ SetPGStore(r.st)
    /\ calls' = <<calls[2],
                  [op |-> "fetch_pdf", impl |-> "pg", id |-> publication.id,
                   upsert |-> upsert,
                   existed |-> PdfName(publication.doi) \in files,
                   requested |-> r.requested, failed |-> r.requested /\ ~netOk,
                   notified |-> r.ret = None, raised |-> NoError,
                   ret |-> r.ret]>>
    /\ UNCHANGED <<catalog, tinyVars, enrichVars, run>>

\* fetch_pdf_from_publication(publication) (118-153) called on a stored
\* document; both failure branches notify (142, 145)
TinyFetchPdfCall(doc_id, netOk) ==
    LET existed == PdfName(docs[doc_id].doi) \in files
        r == FetchPdfFromPublication([table |-> docs, files |-> files],
                                     doc_id, netOk) IN
    /\ docs' = r.st.table
    /\ files' = r.st.files
    /\ calls' = <<calls[2],
                  [op |-> "fetch_pdf", impl |-> "tinydb", id |-> doc_id,
                   upsert |-> TRUE, existed |-> existed,
                   requested |-> ~existed, failed |-> ~existed /\ ~netOk,
                   notified |-> r.ret = None, raised |-> NoError,
                   ret |-> r.ret]>>
    /\ UNCHANGED <<catalog, storeVars, fulltext, enrichVars, run>>

\* the publication whose single fetch failed last, if the last single fetch
\* of this revision failed
AfterFailed(impl) ==
    IF calls[2].op = "fetch_pdf" /\ calls[2].impl = impl /\ calls[2].failed
    THEN {calls[2].id} ELSE {}

\* find_publications_without_pdf(only_highest_version) (240-269)
FindPublicationsWithoutPdf(rows, ft, only_highest_version) ==
    {m \in rows :
        /\ only_highest_version =>
               \A y \in rows : y.doi = m.doi => y.version <= m.version
        /\ ~\E x \in ft : x.id_publication = m.id /\ x.pdf_filename # <<>>}

\* the loop of fetch_all_missing_pdfs (200-203) of the PostgreSQL revision
\* over the rows found, here in the order of their ids
RECURSIVE PGFetchAllLoop(_, _, _)
PGFetchAllLoop(st, todo, pdfOk) ==
    IF todo = {} THEN st
    ELSE LET publication == CHOOSE m \in todo : \A x \in todo : m.id <= x.id
         IN PGFetchAllLoop(
                FetchPdfFromMedrXiv(st, publication.doi, publication.id,
                                    TRUE, publication.doi \in pdfOk).st,
                todo \ {publication}, pdfOk)

\* what one pass of a batch loop does towards the server: a request when the
\* file is not there, a sleep when the fetch returned a path
FetchEvents(f) ==
    (IF f.requested THEN <<"request">> ELSE <<>>)
        \o (IF f.ret # None THEN <<"sleep">> ELSE <<>>)

\* the requests and sleeps of the loop of fetch_all_missing_pdfs (200-203),
\* in the order they happen
RECURSIVE PGFetchAllEvents(_, _, _)
PGFetchAllEvents(st, todo, pdfOk) ==
    IF todo = {} THEN <<>>
    ELSE LET publication == CHOOSE m \in todo : \A x \in todo : m.id <= x.id
             f == FetchPdfFromMedrXiv(st, publication.doi, publication.id,
                                      TRUE, publication.doi \in pdfOk)
         IN FetchEvents(f)
                \o PGFetchAllEvents(f.st, todo \ {publication}, pdfOk)

\* the same for the loop of the TinyDB revision (163-167)
RECURSIVE TinyFetchAllEvents(_, _, _, _)
TinyFetchAllEvents(st, ids, i, pdfOk) ==
    IF i > Len(st.table) THEN <<>>
    ELSE IF i \notin ids
    THEN TinyFetchAllEvents(st, ids, i + 1, pdfOk)
    ELSE LET isfile == PdfName(st.table[i].doi) \in st.files
             f == FetchPdfFromPublication(st, i, st.table[i].doi \in pdfOk)
         IN FetchEvents([requested |-> ~isfile, ret |-> f.ret])
                \o TinyFetchAllEvents(f.st, ids, i + 1, pdfOk)

\* fetch_all_missing_pdfs(None, only_highest_version) (192-203)
PGFetchAllMissingPdfs(only_highest_version, pdfOk) ==
    LET publications == FindPublicationsWithoutPdf(medrxiv, fulltext,
                                                   only_highest_version) IN
    /\ SetPGStore(PGFetchAllLoop(PGStore, publications, pdfOk))
    /\ run' = [op |-> "fetch_all_missing_pdfs", impl |-> "pg",
               only_highest_version |-> only_highest_version,
               attempted |-> {m.id : m \in publications},
               events |-> PGFetchAllEvents(PGStore, publications, pdfOk),
               afterFailed |-> AfterFailed("pg"),
               nth |-> IF run.op = "fetch_all_missing_pdfs"
                       THEN 1 - run.nth ELSE 0]
    /\ UNCHANGED <<catalog, tinyVars, enrichVars, calls>>

\* fetch_all_missing_pdfs(None) (157-167) of the TinyDB revision: every
\* document of the table, fetched when it has no pdf_path
TinyFetchAllMissingPdfs(pdfOk) ==
    LET ids == TinyMissing(docs, "pdf_path")
        st == FetchAllMissingPdfs([table |-> docs, files |-> files],
                                  ids, 1, pdfOk) IN
    /\ docs' = st.table
    /\ files' = st.files
    /\ run' = [op |-> "fetch_all_missing_pdfs", impl |-> "tinydb",
               only_highest_version |-> FALSE, attempted |-> ids,
               events |-> TinyFetchAllEvents([table |-> docs, files |-> files],
                                             ids, 1, pdfOk),
               afterFailed |-> AfterFailed("tinydb"),
               nth |-> IF run.op = "fetch_all_missing_pdfs"
                       THEN 1 - run.nth ELSE 0]
    /\ UNCHANGED <<catalog, storeVars, fulltext, enrichVars, calls>>

NextAsset ==
    \/ \E publication \in medrxiv, upsert \in BOOLEAN, netOk \in BOOLEAN :
           FetchPdfCall(publication, upsert, netOk)
    \/ \E doc_id \in DOMAIN docs, netOk \in BOOLEAN :
           TinyFetchPdfCall(doc_id, netOk)
    \/ \E only_highest_version \in BOOLEAN, pdfOk \in SUBSET Dois :
           PGFetchAllMissingPdfs(only_highest_version, pdfOk)
    \/ \E pdfOk \in SUBSET Dois : TinyFetchAllMissingPdfs(pdfOk)

SpecAsset == InitMissing /\ [][NextAsset]_vars

FetchPdf(c) == c.op = "fetch_pdf"

\* the link rows of a publication: its fulltext rows, or the pdf_path of
\* its document
LinkRows(impl, id) ==
    IF impl = "pg" THEN {x \in fulltext : x.id_publication = id}
    ELSE IF "pdf_path" \in DOMAIN docs[id]
    THEN {[id_publication |-> id, pdf_filename |-> docs[id].pdf_path]}
    ELSE {}

TwoFetchesSamePublication ==
    /\ FetchPdf(calls[1])
    /\ FetchPdf(calls[2])
    /\ calls[1].impl = calls[2].impl
    /\ calls[1].id = calls[2].id
    /\ calls[1].upsert
    /\ calls[2].upsert

\* C13: a fetch that finds the target file issues no request; of two
\* successive fetches of one publication, the first having returned a
\* path, the second issues no request and returns the same path, so at most
\* one request is issued in all, and exactly one link row, pointing at that
\* file, is left for the publication.
C13_FetchTwiceOneRequest ==
    /\ (FetchPdf(calls[2]) /\ calls[2].existed) => ~calls[2].requested
    /\ (TwoFetchesSamePublication /\ calls[1].ret # None) =>
           /\ ~calls[2].requested
           /\ calls[2].ret = calls[1].ret
           /\ LinkRows(calls[2].impl, calls[2].id)
                  = {[id_publication |-> calls[2].id,
                      pdf_filename |-> calls[1].ret.name]}

C13_Witness ==
    /\ TwoFetchesSamePublication
    /\ calls[1].requested
    /\ calls[1].ret # None
    /\ calls[2].ret # None

\* is a publication without link within what a batch run looks at
InBatchScope(impl, id, only_highest_version) ==
    /\ LinkRows(impl, id) = {}
    /\ (impl = "pg" /\ only_highest_version) => id \in CurrentIds("pg")

\* C14: a fetch whose request fails returns null, raises nothing, notifies,
\* and changes neither the files nor any row or document; the batch run
\* that follows attempts the publication again like any other publication
\* without a link.
C14_FailedFetchLeavesNoTrace ==
    [][/\ (calls' # calls /\ calls'[2].failed) =>
              /\ calls'[2].ret = None
              /\ calls'[2].raised = NoError
              /\ calls'[2].notified
              /\ UNCHANGED <<storeVars, assetVars, tinyVars, enrichVars>>
       /\ (run' # run /\ run'.op = "fetch_all_missing_pdfs") =>
              \A id \in run'.afterFailed :
                  InBatchScope(run'.impl, id, run'.only_highest_version)
                      => id \in run'.attempted]_vars

C14_Witness ==
    /\ run.op = "fetch_all_missing_pdfs"
    /\ run.afterFailed # {}
    /\ run.afterFailed \subseteq run.attempted
    /\ FetchPdf(calls[2])
    /\ calls[2].failed

\* ========================================================================
\* PublicationStorage.search_for (PersistentStorage.py 603-642). A text is
\* the set of the words it contains; a keyword is a substring of a text
\* when it equals one of its words up to case.
\* ========================================================================
Words == {"Sepsis", "icu"}
SearchKeywords == {"sepsis", "icu"}
Texts == SUBSET Words

Lower(w) == IF w = "Sepsis" THEN "sepsis" ELSE w

\* text ILIKE '%keyword%'; NULL when the text is NULL, which WHERE treats
\* as not true
ILike(text, keyword) ==
    /\ text.t = "text"
    /\ \E w \in text.v : Lower(w) = Lower(keyword)

\* text ILIKE ANY|ALL (ARRAY['%k1%', ...])
ILikeQuantified(text, keywords, any_or_all) ==
    IF any_or_all = "ALL" THEN \A k \in keywords : ILike(text, k)
    ELSE \E k \in keywords : ILike(text, k)

Text(v) == [t |-> "text", v |-> v]

\* the view newest_revision_with_fulltext_columns, whose definition is not
\* part of the sources: per doi the row of highest version, with the text
\* of its summary or NULL
NewestRevisionWithFulltextColumns(rows, sums) ==
    {[id |-> m.id, doi |-> m.doi, version |-> m.version, date |-> m.date,
      title |-> Text(m.title), abstract |-> Text(m.abstract),
      summary |-> IF HasSummary(sums, m.id, 1)
                  THEN Text(sums[CHOOSE i \in DOMAIN sums :
                                     sums[i].id_publication = m.id].text)
                  ELSE None] :
        m \in {x \in rows : \A y \in rows :
                                y.doi = x.doi => y.version <= x.version}}

\* the WHERE clause built in lines 615-631
SearchWhere(r, keywords, from_date, to_date, any_or_all) ==
    /\ \/ ILikeQuantified(r.title, keywords, any_or_all)
       \/ ILikeQuantified(r.abstract, keywords, any_or_all)
       \/ ILikeQuantified(r.summary, keywords, any_or_all)
    /\ from_date # None => r.date >= from_date.d
    /\ to_date # None => r.date <= to_date.d

\* ORDER BY date DESC, as the sequence of the ids
RECURSIVE OrderByDateDesc(_)
OrderByDateDesc(rs) ==
    IF rs = {} THEN <<>>
    ELSE LET r == CHOOSE x \in rs : \A y \in rs : y.date <= x.date
         IN <<r.id>> \o OrderByDateDesc(rs \ {r})

\* search_for(keywords, from_date, to_date, any_or_all, limit)
SearchFor(keywords, from_date, to_date, any_or_all, limit) ==
    LET found == {r \in NewestRevisionWithFulltextColumns(medrxiv, summaries) :
                     SearchWhere(r, keywords, from_date, to_date, any_or_all)}
        ordered == OrderByDateDesc(found)
    IN /\ run' = [op |-> "search_for", keywords |-> keywords,
                  from_date |-> from_date, to_date |-> to_date,
                  any_or_all |-> any_or_all, limit |-> limit,
                  ret |-> IF limit > 0
                          THEN SubSeq(ordered, 1, Min(limit, Len(ordered)))
                          ELSE ordered]
       /\ UNCHANGED <<catalog, storeVars, assetVars, tinyVars, enrichVars,
                      calls>>

\* a stored publication with the given texts
SearchRow(id, doi, day, title, abstract) ==
    [RawRecord(doi, 1, day, 1) EXCEPT !.title = title, !.abstract = abstract]
        @@ [id |-> id]

InitSearch ==
    /\ catalog = <<>>
    /\ fulltext = {}
    /\ files = {}
    /\ docs = <<>>
    /\ calls = <<NoCall, NoCall>>
    /\ run = NoRun
    /\ medrxivSeq = 3
    /\ \E t1 \in Texts, a1 \in Texts, a2 \in Texts :
           medrxiv = {SearchRow(1, DoiA, 1, t1, a1),
                      SearchRow(2, DoiB, 2, {}, a2)}
    /\ \E s1 \in Texts :
           summaries \in {<<>>, SaveSummary(<<>>, s1, 1, 1)}

NextSearch ==
    \E keywords \in (SUBSET SearchKeywords) \ {{}},
       from_date \in {None, Str(2)}, to_date \in {None, Str(1)},
       any_or_all \in {"ANY", "ALL"}, limit \in 0..1 :
        SearchFor(keywords, from_date, to_date, any_or_all, limit)

SpecSearch == InitSearch /\ [][NextSearch]_vars

\* does the keyword occur in at least one of title, abstract and summary
InSomeField(r, k) ==
    ILike(r.title, k) \/ ILike(r.abstract, k) \/ ILike(r.summary, k)

\* C15: with matchMode ALL (no limit) a search returns exactly the
\* publications of the date range in which every keyword is a
\* case-insensitive substring of title, abstract or summary, different
\* keywords possibly matching in different fields.
C15_SearchAllEveryKeyword ==
    (run.op = "search_for" /\ run.any_or_all = "ALL" /\ run.limit = 0) =>
        SeqToSet(run.ret) =
            {r.id : r \in
                {x \in NewestRevisionWithFulltextColumns(medrxiv, summaries) :
                    /\ \A k \in run.keywords : InSomeField(x, k)
                    /\ run.from_date # None => x.date >= run.from_date.d
                    /\ run.to_date # None => x.date <= run.to_date.d}}

\* ========================================================================
\* exclude_duplicates of both revisions on a batch of fetched records
\* ========================================================================
MaxBatch == 3

\* the loop of exclude_duplicates of the PostgreSQL revision (230-237):
\* dois is the set of the dois seen so far
RECURSIVE PGExcludeLoop(_, _, _)
PGExcludeLoop(publications, dois, unique_publications) ==
    IF publications = <<>> THEN unique_publications
    ELSE LET publication == Head(publications)
             doi == publication.doi
         IN IF doi \notin dois
            THEN PGExcludeLoop(Tail(publications), dois \cup {doi},
                               Append(unique_publications, publication))
            ELSE PGExcludeLoop(Tail(publications), dois,
                               unique_publications)

\* MedrXivScraper.exclude_duplicates (PGMedrXivScraper.py 225-237)
PGExcludeDuplicates(publications) == PGExcludeLoop(publications, {}, <<>>)

BatchRecords ==
    {RawRecord(DoiA, 1, 1, 1), RawRecord(DoiA, 2, 1, 2),
     RawRecord(DoiB, 1, 1, 1), RawRecord(DoiB, 1, 1, 2)}

Batches == UNION {[1..n -> BatchRecords] : n \in 0..MaxBatch}

InitDedup ==
    /\ catalog = <<>>
    /\ medrxiv = {}
    /\ medrxivSeq = 1
    /\ fulltext = {}
    /\ files = {}
    /\ summaries = <<>>
    /\ calls = <<NoCall, NoCall>>
    /\ docs \in {<<>>, <<RawRecord(DoiA, 1, 1, 1)>>}
    /\ run \in [op : {"input"}, impl : {"pg", "tinydb"},
                publications : Batches]

PGExcludeDuplicatesCall ==
    /\ run.op = "input"
    /\ run.impl = "pg"
    /\ LET ret == PGExcludeDuplicates(run.publications) IN
       run' = [op |-> "exclude_duplicates", impl |-> "pg",
               publications |-> run.publications, raised |-> NoError,
               ret |-> ret, again |-> PGExcludeDuplicates(ret)]
    /\ UNCHANGED <<catalog, storeVars, assetVars, tinyVars, enrichVars,
                   calls>>

TinyExcludeDuplicatesCall ==
    /\ run.op = "input"
    /\ run.impl = "tinydb"
    /\ LET r == ExcludeDuplicates(docs, run.publications) IN
       run' = [op |-> "exclude_duplicates", impl |-> "tinydb",
               publications |-> run.publications, raised |-> r.raised,
               ret |-> r.ret,
               again |-> ExcludeDuplicates(docs, r.ret).ret]
    /\ UNCHANGED <<catalog, storeVars, assetVars, tinyVars, enrichVars,
                   calls>>

NextDedup == PGExcludeDuplicatesCall \/ TinyExcludeDuplicatesCall

SpecDedup == InitDedup /\ [][NextDedup]_vars

\* the records of a batch that are the first of their doi, in batch order
FirstOfDoi(publications) ==
    LET keep == {i \in DOMAIN publications :
                    \A j \in 1..(i - 1) :
                        publications[j].doi # publications[i].doi}
        F[i \in 0..Len(publications)] ==
            IF i = 0 THEN <<>>
            ELSE IF i \in keep THEN Append(F[i - 1], publications[i])
            ELSE F[i - 1]
    IN F[Len(publications)]

\* C16: exclude_duplicates returns, in input order, exactly the first
\* record of every doi of the batch, whatever the store holds, and applied
\* to its result it returns that result.
C16_ExcludeDuplicatesFirstSeen ==
    run.op = "exclude_duplicates" =>
        /\ run.raised = NoError
        /\ run.ret = FirstOfDoi(run.publications)
        /\ run.again = run.ret

\* the same for the PostgreSQL revision alone
PGExcludeDuplicatesFirstSeen ==
    (run.op = "exclude_duplicates" /\ run.impl = "pg") =>
        /\ run.ret = FirstOfDoi(run.publications)
        /\ run.again = run.ret

\* ========================================================================
\* split_daterange_into_days on calendar dates (PGMedrXivScraper.py 46-59,
\* MedrXivScraper.py 27-40, the same code). A date string 'YYYY-MM-DD' is
\* the record of its three numbers; a datetime is the number of its day,
\* counted from 2023-01-01 as day 1.
\* ========================================================================
IsLeap(y) == (y % 4 = 0 /\ y % 100 # 0) \/ y % 400 = 0

DaysInMonth(y, m) ==
    IF m = 2 THEN (IF IsLeap(y) THEN 29 ELSE 28)
    ELSE IF m \in {4, 6, 9, 11} THEN 30 ELSE 31

RECURSIVE DaysBeforeMonth(_, _)
DaysBeforeMonth(y, m) ==
    IF m = 1 THEN 0 ELSE DaysInMonth(y, m - 1) + DaysBeforeMonth(y, m - 1)

RECURSIVE DaysBeforeYear(_)
DaysBeforeYear(y) ==
    IF y <= 2023 THEN 0
    ELSE DaysBeforeMonth(y - 1, 12) + 31 + DaysBeforeYear(y - 1)

\* datetime.strptime(date, '%Y-%m-%d')
Strptime(date) ==
    DaysBeforeYear(date.y) + DaysBeforeMonth(date.y, date.m) + date.d

\* day.strftime('%Y-%m-%d')
RECURSIVE StrftimeFrom(_, _, _)
StrftimeFrom(n, y, m) ==
    IF n > DaysInMonth(y, m)
    THEN IF m = 12 THEN StrftimeFrom(n - DaysInMonth(y, m), y + 1, 1)
         ELSE StrftimeFrom(n - DaysInMonth(y, m), y, m + 1)
    ELSE [y |-> y, m |-> m, d |-> n]

Strftime(day) == StrftimeFrom(day, 2023, 1)

\* range(delta.days) in the place of range(delta.days + 1)
SplitDaterangeExclusive(start_date, end_date) ==
    LET start == Strptime(start_date)
        delta == Strptime(end_date) - start
    IN [i \in 1..Max(0, delta) |-> Strftime(start + (i - 1))]

\* split_daterange_into_days(start_date, end_date): the loop variable of
\* range(delta.days + 1) is i - 1
SplitDaterangeIntoDayStrings(start_date, end_date) ==
    LET start == Strptime(start_date)
        delta == Strptime(end_date) - start
    IN [i \in 1..Max(0, delta + 1) |-> Strftime(start + (i - 1))]

\* dates around the end of a year and the end of a leap February
CalendarDates ==
    {[y |-> 2023, m |-> 12, d |-> d] : d \in {30, 31}}
        \cup {[y |-> 2024, m |-> 1, d |-> d] : d \in {1, 2}}
        \cup {[y |-> 2024, m |-> 2, d |-> d] : d \in {28, 29}}
        \cup {[y |-> 2024, m |-> 3, d |-> d] : d \in {1, 2}}

InitSplit ==
    /\ catalog = <<>>
    /\ medrxiv = {}
    /\ medrxivSeq = 1
    /\ fulltext = {}
    /\ files = {}
    /\ docs = <<>>
    /\ summaries = <<>>
    /\ calls = <<NoCall, NoCall>>
    /\ run \in [op : {"input"}, impl : {"pg", "tinydb"},
                start_date : CalendarDates, end_date : CalendarDates]

PGSplitDaterange ==
    /\ run.op = "input"
    /\ run.impl = "pg"
    /\ run' = [op |-> "split_daterange_into_days", impl |-> "pg",
               start_date |-> run.start_date, end_date |-> run.end_date,
               ret |-> SplitDaterangeIntoDayStrings(run.start_date,
                                                    run.end_date)]
    /\ UNCHANGED <<catalog, storeVars, assetVars, tinyVars, enrichVars,
                   calls>>

TinySplitDaterange ==
    /\ run.op = "input"
    /\ run.impl = "tinydb"
    /\ run' = [op |-> "split_daterange_into_days", impl |-> "tinydb",
               start_date |-> run.start_date, end_date |-> run.end_date,
               ret |-> SplitDaterangeIntoDayStrings(run.start_date,
                                                    run.end_date)]
    /\ UNCHANGED <<catalog, storeVars, assetVars, tinyVars, enrichVars,
                   calls>>

NextSplit == PGSplitDaterange \/ TinySplitDaterange

SpecSplit == InitSplit /\ [][NextSplit]_vars

\* the calendar day after a date
NextDay(date) ==
    IF date.d < DaysInMonth(date.y, date.m)
    THEN [date EXCEPT !.d = @ + 1]
    ELSE IF date.m < 12 THEN [y |-> date.y, m |-> date.m + 1, d |-> 1]
    ELSE [y |-> date.y + 1, m |-> 1, d |-> 1]

\* a is not after b
NotAfter(a, b) ==
    \/ a.y < b.y
    \/ a.y = b.y /\ a.m < b.m
    \/ a.y = b.y /\ a.m = b.m /\ a.d <= b.d

\* C17: split_daterange_into_days with start <= end returns the
\* consecutive days from start to end, both ends included, ascending, no
\* day repeated (a single entry when start = end); with start > end it
\* returns the empty list.
C17_SplitDaterangeInclusive ==
    run.op = "split_daterange_into_days" =>
        LET ret == run.ret IN
        IF NotAfter(run.start_date, run.end_date)
        THEN /\ Len(ret) >= 1
             /\ ret[1] = run.start_date
             /\ ret[Len(ret)] = run.end_date
             /\ \A i \in 1..(Len(ret) - 1) : ret[i + 1] = NextDay(ret[i])
             /\ \A i, j \in DOMAIN ret : i # j => ret[i] # ret[j]
             /\ run.start_date = run.end_date => Len(ret) = 1
        ELSE ret = <<>>

\* a range that crosses the end of the leap February has been split
C17_Witness ==
    /\ run.op = "split_daterange_into_days"
    /\ run.start_date = [y |-> 2024, m |-> 2, d |-> 28]
    /\ run.end_date = [y |-> 2024, m |-> 3, d |-> 2]
    /\ Len(run.ret) = 4

\* ========================================================================
\* PersistentStorage.initiate_connection_pool (PersistentStorage.py
\* 148-163). run holds the position of the call: the attempts made so far
\* with their outcomes, the pool attribute, and how the call ended.
\* ========================================================================
MaxRetries == 6

\* def initiate_connection_pool(self, retries=5, ...)
DefaultRetries == 5

\* what one pass through the try block can do: succeed, raise
\* errors.ConnectionFailure from ConnectionPool(...) or from wait(), or
\* raise an exception that the except clause does not name
AttemptOutcomes ==
    {"ok", "ConnectionFailure_pool", "ConnectionFailure_wait", "other"}

ConnectionFailures == {"ConnectionFailure_pool", "ConnectionFailure_wait"}

\* while True in the place of for i in range(retries)
AttemptsUnbounded(i, retries) == TRUE

\* for i in range(retries): another pass is made while i < retries
AttemptsLeft(i, retries) == i < retries

InitPool ==
    /\ catalog = <<>>
    /\ medrxiv = {}
    /\ medrxivSeq = 1
    /\ fulltext = {}
    /\ files = {}
    /\ docs = <<>>
    /\ summaries = <<>>
    /\ calls = <<NoCall, NoCall>>
    /\ run \in [op : {"initiate_connection_pool"}, retries : 0..MaxRetries,
                attempts : {<<>>}, connection_pool : {"None"},
                pc : {"loop"}, exit_code : {0}]

\* one pass of the loop body: the try block and, after a connection
\* failure, the except block with its sleep
PoolAttempt(outcome) ==
    /\ run.op = "initiate_connection_pool"
    /\ run.pc = "loop"
    /\ AttemptsLeft(Len(run.attempts), run.retries)
    /\ Len(run.attempts) <= MaxRetries
    /\ run' = [run EXCEPT
                !.attempts = Append(@, outcome),
                !.connection_pool =
                    IF outcome = "ok" THEN "ready"
                    ELSE IF outcome = "ConnectionFailure_pool" THEN @
                    ELSE "not ready",
                !.pc = IF outcome = "ok" THEN "returned"
                       ELSE IF outcome \in ConnectionFailures THEN "loop"
                       ELSE "raised"]
    /\ UNCHANGED <<catalog, storeVars, assetVars, tinyVars, enrichVars,
                   calls>>

\* the loop is exhausted: logger.error(...); sys.exit(1)
PoolExit ==
    /\ run.op = "initiate_connection_pool"
    /\ run.pc = "loop"
    /\ ~AttemptsLeft(Len(run.attempts), run.retries)
    /\ run' = [run EXCEPT !.pc = "exited", !.exit_code = 1]
    /\ UNCHANGED <<catalog, storeVars, assetVars, tinyVars, enrichVars,
                   calls>>

NextPool == (\E outcome \in AttemptOutcomes : PoolAttempt(outcome)) \/ PoolExit

SpecPool == InitPool /\ [][NextPool]_vars

\* every attempt of the call so far failed to connect
AllConnectionFailures(r) ==
    \A k \in DOMAIN r.attempts : r.attempts[k] \in ConnectionFailures

\* C18: opening the pool makes at most `retries` attempts; it returns as
\* soon as one attempt succeeds, with no further attempt; when every
\* attempt fails to connect the process exits with a non-zero status; it
\* never returns without a usable pool. (An exception other than
\* ConnectionFailure leaves the call, and the constructor, as raised.)
C18_BoundedConnectionAttempts ==
    [][LET r == run' IN
       /\ Len(r.attempts) <= r.retries
       /\ \A k \in DOMAIN r.attempts :
              r.attempts[k] = "ok" =>
                  k = Len(r.attempts) /\ r.pc = "returned"
       /\ r.pc = "returned" =>
              /\ r.connection_pool = "ready"
              /\ r.attempts[Len(r.attempts)] = "ok"
              /\ r.exit_code = 0
       /\ r.pc = "exited" =>
              /\ r.exit_code # 0
              /\ Len(r.attempts) = r.retries
              /\ AllConnectionFailures(r)
       /\ r.pc = "raised" => r.attempts[Len(r.attempts)] = "other"
       /\ run.pc \in {"returned", "exited", "raised"} => FALSE
       /\ (run.pc = "loop" /\ Len(run.attempts) = run.retries) =>
              r.pc = "exited"
      ]_vars

\* the default five attempts all failed to connect and the process exited
C18_Witness ==
    /\ run.op = "initiate_connection_pool"
    /\ run.retries = DefaultRetries
    /\ Len(run.attempts) = DefaultRetries
    /\ AllConnectionFailures(run)
    /\ run.pc = "exited"
    /\ run.exit_code = 1

\* ========================================================================
\* Two writers in PublicationStorage.upsert at once (PersistentStorage.py
\* 468-505). Each call takes its own connection from the pool, executes the
\* one INSERT ... ON CONFLICT statement, reads the id, and commits when the
\* connection block is left. medrxiv holds the committed rows; a writer
\* between execute and commit holds the row version it wrote.
\* ========================================================================
Writers == {1, 2}

\* the row versions written and not yet committed by the writers in ws
Uncommitted(writers, ws) ==
    {writers[w].row : w \in {x \in ws : writers[x].pc = "executed"}}

\* no arbiter index on (doi, version): an uncommitted row of the same
\* identity is not seen
ConflictUnseen(others, p) == FALSE

\* ON CONFLICT (doi, version): the statement waits while another
\* transaction holds an uncommitted row version of the same identity
ConflictWaits(others, p) == Conflicting(others, p) # {}

InitConcurrent ==
    /\ catalog = <<>>
    /\ \/ medrxiv = {} /\ medrxivSeq = 1
       \/ medrxiv = {InsertedRow(RawRecord(DoiA, 1, 1, 1), 1)}
          /\ medrxivSeq = 2
    /\ fulltext = {}
    /\ files = {}
    /\ docs = <<>>
    /\ summaries = <<>>
    /\ calls = <<NoCall, NoCall>>
    /\ \E p1 \in UpsertInputs, p2 \in UpsertInputs :
          run = [op |-> "concurrent_upsert",
                 writers |->
                    [w \in Writers |->
                        [p |-> IF w = 1 THEN p1 ELSE p2, pc |-> "start",
                         id |-> 0, row |-> None]]]

\* cursor.execute(query, values); upserted_id = cursor.fetchone()['id']
UpsertExecute(w) ==
    LET me == run.writers[w]
        r == UpsertStmt(medrxiv, medrxivSeq, me.p)
    IN
    /\ run.op = "concurrent_upsert"
    /\ me.pc = "start"
    /\ ~ConflictWaits(Uncommitted(run.writers, Writers \ {w}), me.p)
    /\ run' = [run EXCEPT !.writers[w] =
                  [me EXCEPT !.pc = "executed", !.id = r.id,
                             !.row = CHOOSE e \in r.rows : e.id = r.id]]
    /\ medrxivSeq' = r.seq
    /\ UNCHANGED <<catalog, medrxiv, assetVars, tinyVars, enrichVars, calls>>

\* return upserted_id: the connection block commits the transaction
UpsertCommit(w) ==
    LET me == run.writers[w] IN
    /\ run.op = "concurrent_upsert"
    /\ me.pc = "executed"
    /\ medrxiv' = {e \in medrxiv : e.id # me.id} \cup {me.row}
    /\ run' = [run EXCEPT !.writers[w] = [me EXCEPT !.pc = "returned"]]
    /\ UNCHANGED <<catalog, medrxivSeq, assetVars, tinyVars, enrichVars,
                   calls>>

NextConcurrent == \E w \in Writers : UpsertExecute(w) \/ UpsertCommit(w)

SpecConcurrent == InitConcurrent /\ [][NextConcurrent]_vars

\* both writers have returned from upserts of one identity
BothReturnedSameIdentity ==
    /\ run.op = "concurrent_upsert"
    /\ \A w \in Writers : run.writers[w].pc = "returned"
    /\ SameIdentity(run.writers[1].p, run.writers[2].p)

\* every mutable column of row e has the value of input p
FieldsFrom(e, p) == \A c \in MutableColumns : e[c] = Excluded(p, c)

\* C19: two writers upserting the same (doi, version) concurrently: in
\* every interleaving the store never holds two rows of the identity and
\* ends with exactly one, both writers receive that row's id, and the
\* row's mutable fields all come from one of the two inputs.
C19_ConcurrentUpsertOneRow ==
    /\ UniqueRows(medrxiv)
    /\ BothReturnedSameIdentity =>
          LET hit == Conflicting(medrxiv, run.writers[1].p) IN
          /\ Cardinality(hit) = 1
          /\ \A e \in hit :
                /\ run.writers[1].id = e.id
                /\ run.writers[2].id = e.id
                /\ \E w \in Writers : FieldsFrom(e, run.writers[w].p)

\* two writers with different contents for one identity that was not yet
\* stored have both returned
C19_Witness ==
    /\ BothReturnedSameIdentity
    /\ run.writers[1].p # run.writers[2].p
    /\ run.writers[1].p.doi = DoiB
    /\ run.writers[1].id = run.writers[2].id

\* ========================================================================
\* A malformed record in a fetched page (PGMedrXivScraper.py 74-103,
\* 121-127; PersistentStorage.py 474-505). upsert names every key of the
\* dict as a column of the INSERT: a key that is no column of medrxiv
\* makes the statement fail and cursor.execute raise.
\* ========================================================================
MaxCatalog == 3

\* a record of the catalog with a field the table does not have
WithUnexpectedField(p) == ("unexpected" :> <<"unexpected">>) @@ p

Malformed(p) == DOMAIN p \ (Columns \cup {"id"}) # {}

\* cursor.execute raises (psycopg UndefinedColumn); nothing is written
UpsertRaises(p) == Malformed(p)

PageRecords ==
    {RawRecord(DoiA, 1, 1, 1), RawRecord(DoiB, 1, 2, 1),
     WithUnexpectedField(RawRecord(DoiA, 2, 2, 1)),
     WithUnexpectedField(RawRecord(DoiB, 2, 3, 1))}

\* catalogs of distinct records, in any order, some of them malformed
PageCatalogs ==
    {c \in UNION {[1..n -> PageRecords] : n \in 0..MaxCatalog} :
        \A i, j \in DOMAIN c : c[i] = c[j] => i = j}

\* the "Inserting into database" loop (83-87) with an upsert that may
\* raise: the exception leaves the loop at that record
RECURSIVE InsertIntoDatabaseOrRaise(_, _, _, _)
InsertIntoDatabaseOrRaise(st, publications, fetch_pdfs, pdfOk) ==
    IF publications = <<>> THEN [st |-> st, raised |-> NoError]
    ELSE LET p == Head(publications) IN
         IF UpsertRaises(p)
         THEN [st |-> st, raised |-> "UndefinedColumn"]
         ELSE LET u == UpsertStmt(st.rows, st.seq, p)
                  st1 == [st EXCEPT !.rows = u.rows, !.seq = u.seq]
                  st2 == IF fetch_pdfs
                         THEN FetchPdfFromMedrXiv(st1, p.doi, u.id, TRUE,
                                                  p.doi \in pdfOk).st
                         ELSE st1
              IN InsertIntoDatabaseOrRaise(st2, Tail(publications),
                                           fetch_pdfs, pdfOk)

\* the page loop of fetch_from_medrXiv (74-99), every request answered
\* with 200, each page inserted before the next is requested
RECURSIVE FetchFromMedrXivPages(_, _, _, _, _, _, _)
FetchFromMedrXivPages(st, q, ps, cursor, all, fetch_pdfs, pdfOk) ==
    LET response == Response(q, ps, cursor, TRUE)
        publications == response.collection
        all_publications == all \o publications
        ins == InsertIntoDatabaseOrRaise(st, publications, fetch_pdfs, pdfOk)
    IN IF ins.raised # NoError
       THEN [st |-> ins.st, all |-> all_publications, raised |-> ins.raised]
       ELSE IF PGNoMoreResults(cursor, all_publications, publications,
                               response.messages[1])
       THEN [st |-> ins.st, all |-> all_publications, raised |-> NoError]
       ELSE FetchFromMedrXivPages(ins.st, q, ps, cursor + Len(publications),
                                  all_publications, fetch_pdfs, pdfOk)

InitMalformed ==
    /\ catalog \in PageCatalogs
    /\ EmptyStores

\* fetch_latest_publications(start_date=..., fetch_pdfs=...) (106-127)
\* against a server with pages of ps records: the try block around
\* fetch_from_medrXiv catches what upsert raises
FetchLatestOverMalformed(start_date, ps, fetch_pdfs) ==
    LET today == Str(Today)
        start == LatestStartDate(0, start_date, medrxiv)
        q == CatalogQuery(catalog, UrlDay(start), UrlDay(today))
        f == FetchFromMedrXivPages(PGStore, q, ps, 0, <<>>, fetch_pdfs, Dois)
    IN
    /\ start # today
    /\ SetPGStore(f.st)
    /\ run' = [op |-> "fetch_latest_publications",
               start_date |-> start_date, page_size |-> ps,
               fetch_pdfs |-> fetch_pdfs, queried |-> q,
               caught |-> f.raised, raised |-> NoError]
    /\ UNCHANGED <<catalog, tinyVars, enrichVars, calls>>

NextMalformed ==
    \E start_date \in {Str(d) : d \in 1..(Today - 1)},
       ps \in 2..MaxPageSize, fetch_pdfs \in BOOLEAN :
       FetchLatestOverMalformed(start_date, ps, fetch_pdfs)

SpecMalformed == InitMalformed /\ [][NextMalformed]_vars

\* C20: a malformed record of a fetched page is skipped on its own: every
\* well-formed record of the same page and of the later pages is upserted,
\* and the sync run is not aborted.
C20_MalformedRecordSkipped ==
    run.op = "fetch_latest_publications" =>
        /\ run.raised = NoError
        /\ \A i \in DOMAIN run.queried :
              ~Malformed(run.queried[i]) =>
                  Conflicting(medrxiv, run.queried[i]) # {}

\* ========================================================================
\* The page loops against an arbitrary server (PGMedrXivScraper.py 72-103,
\* MedrXivScraper.py 79-103): one action per pass of `while True`, the
\* response of the pass chosen freely. run holds the loop's variables.
\* ========================================================================
MaxRequests == 3

\* n records of a page (their content plays no part in the loop)
PageOf(n) == [i \in 1..n |-> RawRecord(DoiA, 1, 1, 1)]

\* every answer a server can give to one page request
ServerResponses ==
    {[status |-> 500, collection |-> <<>>, messages |-> <<>>]}
        \cup [status : {200},
              collection : {PageOf(n) : n \in 0..MaxPageSize},
              messages : {<<>>} \cup
                         {<<m>> : m \in [count : 0..MaxTotal,
                                         total : 0..MaxTotal]}]

InitPaging ==
    /\ catalog = <<>>
    /\ medrxiv = {}
    /\ medrxivSeq = 1
    /\ fulltext = {}
    /\ files = {}
    /\ docs = <<>>
    /\ summaries = <<>>
    /\ calls = <<NoCall, NoCall>>
    /\ run \in [op : {"page_loop"}, impl : {"pg", "tinydb"}, cursor : {0},
                all_publications : {<<>>}, requests : {0}, pc : {"loop"},
                status : {0}, received : {0}]

\* one pass of the loop: request, status test, extend, "no more results"
\* test, cursor += len(publications)
PageLoopPass(response, impl) ==
    LET publications == response.collection
        all_publications == run.all_publications \o publications
        stop == \/ response.messages = <<>>
                \/ IF impl = "pg"
                   THEN PGNoMoreResults(run.cursor, all_publications,
                                        publications, response.messages[1])
                   ELSE TinyNoMoreResults(run.cursor, all_publications,
                                          publications, response.messages[1])
    IN
    /\ run.pc = "loop"
    /\ run.requests < MaxRequests
    /\ run' = IF response.status # 200
              THEN [run EXCEPT !.requests = @ + 1, !.pc = "done",
                               !.status = response.status, !.received = 0]
              ELSE [run EXCEPT
                      !.requests = @ + 1,
                      !.all_publications = all_publications,
                      !.status = 200,
                      !.received = Len(publications),
                      !.pc = IF stop THEN "done" ELSE "loop",
                      !.cursor = IF stop THEN @ ELSE @ + Len(publications)]
    /\ UNCHANGED <<catalog, storeVars, assetVars, tinyVars, enrichVars,
                   calls>>

PGPageLoopPass(response) ==
    /\ run.op = "page_loop"
    /\ run.impl = "pg"
    /\ PageLoopPass(response, "pg")

TinyPageLoopPass(response) ==
    /\ run.op = "page_loop"
    /\ run.impl = "tinydb"
    /\ PageLoopPass(response, "tinydb")

NextPaging ==
    \E response \in ServerResponses :
        PGPageLoopPass(response) \/ TinyPageLoopPass(response)

SpecPaging == InitPaging /\ [][NextPaging]_vars

\* C21: the page loop terminates for every sequence of server responses:
\* it stops on a success response with an empty collection, whatever total
\* is reported, and the cursor strictly increases on every pass that
\* continues.
C21_PageLoopTerminates ==
    [][run'.op = "page_loop" =>
          /\ (run'.status = 200 /\ run'.received = 0) => run'.pc = "done"
          /\ run'.pc = "loop" => run'.cursor > run.cursor
      ]_vars

\* ========================================================================
\* Frame of CatalogClient.fetch (under SpecClient)
\* ========================================================================

\* C22: a fetch leaves the store and the file library as they were: no
\* upsert or insert, no deduplication, no PDF download, for every sequence
\* of server responses.
C22_FetchLeavesStoreUnchanged ==
    [][run'.op = "fetch" =>
          UNCHANGED <<medrxiv, medrxivSeq, fulltext, files, docs>>]_vars

\* ========================================================================
\* Pacing of the batch fetch (under SpecAsset)
\* ========================================================================

\* C23: in the batch fetch a sleep lies between any two successive PDF
\* requests, whether the earlier request succeeded or failed.
C23_SleepBetweenRequests ==
    run.op = "fetch_all_missing_pdfs" =>
        \A k \in 1..(Len(run.events) - 1) :
            ~(run.events[k] = "request" /\ run.events[k + 1] = "request")

\* ========================================================================
\* MedrXivAssistant.analyze_publication (MedrXivScraper.py 279-304,
\* PGMedrXivScraper.py 376-400). The result carries the store writes of the
\* call in order, each with the number of stages finished before it and
\* the kinds whose artifact it stores.
\* ========================================================================
StageOrder == <<"summary", "keywords", "abstract_critique">>

\* a dict stored as a value of itself (publication[key] = publication)
Itself == <<"publication", <<"itself", 0>>>>

\* the kinds under which the fields hold the processor's artifact
ArtifactsIn(fields) ==
    {k \in Kinds : k \in DOMAIN fields
                   /\ fields[k] = Processor(k, fields.abstract)}

\* the three stage calls of analyze_publication on the dict publication
\* (296-298), each with commit=False: publication[key] = <what the stage
\* returned>. A stage that finds its key raises (TinyStage).
RECURSIVE AnalyzeStages(_, _, _, _, _)
AnalyzeStages(table, doc_id, publication, force, i) ==
    IF i > Len(StageOrder)
    THEN [publication |-> publication, done |-> i - 1, raised |-> NoError]
    ELSE LET r == TinyStage(table, doc_id, StageOrder[i], FALSE, force) IN
         IF r.raised # NoError
         THEN [publication |-> publication, done |-> i - 1,
               raised |-> r.raised]
         ELSE AnalyzeStages(table, doc_id,
                            (StageOrder[i] :>
                                 IF r.ret = Publication THEN Itself
                                 ELSE Processor(StageOrder[i],
                                                publication.abstract))
                                @@ publication,
                            force, i + 1)

\* analyze_publication(publication, fetch_pdf, commit, force) of the TinyDB
\* revision on st = [table, files]. netOk: does the PDF request succeed;
\* cyclicOk: does the store accept a document that holds itself as a value
TinyAnalyze(st, doc_id, fetch_pdf, commit, force, netOk, cyclicOk) ==
    LET f == IF fetch_pdf THEN FetchPdfFromPublication(st, doc_id, netOk)
             ELSE [st |-> st, ret |-> None]
        isfile == PdfName(st.table[doc_id].doi) \in st.files
        wrote == /\ fetch_pdf
                 /\ IF isfile THEN "pdf_path" \notin DOMAIN st.table[doc_id]
                    ELSE netOk
        early == IF wrote
                 THEN <<[stages |-> 0,
                         artifacts |-> ArtifactsIn(f.st.table[doc_id])]>>
                 ELSE <<>>
        publication == IF fetch_pdf
                       THEN ("pdf_path" :> IF f.ret = None THEN None
                                           ELSE f.ret.name)
                                @@ f.st.table[doc_id]
                       ELSE st.table[doc_id]
        a == AnalyzeStages(f.st.table, doc_id, publication, force, 1)
        cyclic == \E k \in Kinds \cap DOMAIN a.publication :
                      a.publication[k] = Itself
    IN IF a.raised # NoError
       THEN [st |-> f.st, writes |-> early, raised |-> a.raised,
             ret |-> None]
       ELSE IF ~commit
       THEN [st |-> f.st, writes |-> early, raised |-> NoError,
             ret |-> a.publication]
       ELSE IF cyclic /\ ~cyclicOk
       THEN [st |-> f.st, writes |-> early, raised |-> "ValueError",
             ret |-> None]
       ELSE [st |-> [f.st EXCEPT !.table =
                        TinyUpdate(@, doc_id, a.publication)],
             writes |-> Append(early,
                               [stages |-> a.done,
                                artifacts |-> ArtifactsIn(a.publication)]),
             raised |-> NoError, ret |-> a.publication]

TinyAnalyzePublication(doc_id, fetch_pdf, commit, force, netOk, cyclicOk) ==
    LET r == TinyAnalyze([table |-> docs, files |-> files], doc_id,
                         fetch_pdf, commit, force, netOk, cyclicOk) IN
    /\ docs' = r.st.table
    /\ files' = r.st.files
    /\ run' = [op |-> "analyze_publication", impl |-> "tinydb",
               id |-> doc_id, fetch_pdf |-> fetch_pdf, commit |-> commit,
               force |-> force, writes |-> r.writes, raised |-> r.raised,
               ret |-> r.ret]
    /\ UNCHANGED <<catalog, storeVars, fulltext, enrichVars, calls>>

\* analyze_publication of the PostgreSQL revision: MedrXivScraper has no
\* fetch_pdf_from_publication (line 390) and MedrXivAssistant has no
\* summarize_publication (line 393), so either way AttributeError is
\* raised before anything is computed or written
PGAnalyzePublication(publication, fetch_pdf, commit, force) ==
    /\ run' = [op |-> "analyze_publication", impl |-> "pg",
               id |-> publication.id, fetch_pdf |-> fetch_pdf,
               commit |-> commit, force |-> force, writes |-> <<>>,
               raised |-> "AttributeError", ret |-> None]
    /\ UNCHANGED <<catalog, storeVars, assetVars, tinyVars, enrichVars,
                   calls>>

NextAnalyze ==
    \/ \E doc_id \in DOMAIN docs, fetch_pdf \in BOOLEAN, commit \in BOOLEAN,
          force \in BOOLEAN, netOk \in BOOLEAN, cyclicOk \in BOOLEAN :
          TinyAnalyzePublication(doc_id, fetch_pdf, commit, force, netOk,
                                 cyclicOk)
    \/ \E publication \in medrxiv, fetch_pdf \in BOOLEAN, commit \in BOOLEAN,
          force \in BOOLEAN :
          PGAnalyzePublication(publication, fetch_pdf, commit, force)

SpecAnalyze == InitMissing /\ [][NextAnalyze]_vars

\* C24: analyze writes nothing to the store until all three stages have
\* finished; with commit it then makes exactly one write holding all three
\* artifacts, without commit it makes no write, for every fetch_pdf and
\* force.
C24_AnalyzeWritesOnceAtEnd ==
    run.op = "analyze_publication" =>
        /\ \A k \in DOMAIN run.writes : run.writes[k].stages = Len(StageOrder)
        /\ run.commit => /\ Len(run.writes) = 1
                         /\ run.writes[1].artifacts = Kinds
        /\ ~run.commit => run.writes = <<>>

\* C30: every stage call returns the artifact itself, newly computed or
\* already there, so after analyze has returned the publication's summary,
\* keywords and critique each hold the artifact the processor produced.
C30_AnalyzeHoldsArtifacts ==
    (run.op = "analyze_publication" /\ run.raised = NoError) =>
        ArtifactsIn(run.ret) = Kinds

\* ========================================================================
\* The PDF fetches of one sync pass (PGMedrXivScraper.py 81-87, 304-309;
\* MedrXivScraper.py 218-228)
\* ========================================================================

\* the fetch_pdf_from_medrXiv calls of the "Inserting into database" loop
\* (84-87), in order: the doi fetched and whether a request was issued
RECURSIVE InsertIntoDatabaseFetches(_, _, _)
InsertIntoDatabaseFetches(st, publications, pdfOk) ==
    IF publications = <<>> THEN <<>>
    ELSE LET p == Head(publications)
             u == UpsertStmt(st.rows, st.seq, p)
             st1 == [st EXCEPT !.rows = u.rows, !.seq = u.seq]
             f == FetchPdfFromMedrXiv(st1, p.doi, u.id, TRUE, p.doi \in pdfOk)
         IN <<[doi |-> p.doi, requested |-> f.requested]>>
                \o InsertIntoDatabaseFetches(f.st, Tail(publications), pdfOk)

\* fetch_medrxiv_publications(from_date, to_date) (272-309) with the PDF
\* fetches of the pass recorded; the server's pages hold ps records
PGSyncPass(from_date, to_date, ps, pdfOk) ==
    LET stored == LatestStored(medrxiv, "medrxiv")
        latest_stored == IF stored = None THEN from_date ELSE stored
        raises == latest_stored.t # "str"
        queried == ~raises /\ to_date.d > latest_stored.d
        f == FetchFromMedrXiv(PGStore, catalog, ps, latest_stored, to_date,
                              TRUE, 0, pdfOk)
        ret == IF queried /\ Len(f.all) > 0 THEN PGExcludeDuplicates(f.all)
               ELSE <<>>
    IN
    /\ SetPGStore(IF queried THEN f.st ELSE PGStore)
    /\ run' = [op |-> "sync_pass", impl |-> "pg",
               fetched |-> IF queried THEN Len(f.all) ELSE 0,
               kept |-> Len(ret),
               fetches |-> IF queried
                           THEN InsertIntoDatabaseFetches(PGStore, f.all,
                                                          pdfOk)
                           ELSE <<>>,
               raised |-> IF raises THEN "TypeError" ELSE NoError]
    /\ UNCHANGED <<catalog, tinyVars, enrichVars, calls>>

NextPass ==
    \/ \E from_date \in {Str(d) : d \in Days}, ps \in 2..MaxPageSize,
          pdfOk \in SUBSET Dois :
          PGSyncPass(from_date, Str(Today), ps, pdfOk)
    \/ \E from_date \in Days, to_date \in Days, failDays \in SUBSET Days :
          FetchMedrxivPapers(from_date, to_date, {}, failDays)

SpecPass == Init /\ [][NextPass]_vars

\* the PDF fetches of the last pass: the TinyDB revision reaches its PDF
\* loop only after exclude_duplicates has returned
PassFetches ==
    IF run.op = "sync_pass" THEN run.fetches ELSE <<>>

\* C25: within one sync pass at most one PDF fetch and at most one PDF
\* request is made per doi, however many versions of the doi the batch
\* holds and whether or not the first attempt fails.
C25_OneFetchPerDoi ==
    \A doi \in Dois :
        LET of == {k \in DOMAIN PassFetches : PassFetches[k].doi = doi} IN
        /\ Cardinality(of) <= 1
        /\ Cardinality({k \in of : PassFetches[k].requested}) <= 1

\* ========================================================================
\* Pooled connections during the backfills of the PostgreSQL revision
\* (PersistentStorage.py 695-710; PGMedrXivScraper.py 129-135, 192-269).
\* missing_summaries and find_publications_without_pdf are generators that
\* yield inside `with self.connection() as conn`: the block is left when
\* the generator is exhausted. run holds the position of the consuming
\* loop, the connections checked out (held) and their highest number so
\* far (peak).
\* ========================================================================
BackfillOps == {"update_summaries", "fetch_all_missing_pdfs"}

\* the row the cursor yields next: the rows are taken in the order of
\* their ids
NextRow(todo) == CHOOSE m \in todo : \A x \in todo : m.id <= x.id

\* the first next() of the generator: the connection is taken from the
\* pool, the query is executed, the first row is yielded
BackfillStart(op, only_highest_version) ==
    LET todo == IF op = "update_summaries"
                THEN MissingSummaries(medrxiv, summaries, 1)
                ELSE FindPublicationsWithoutPdf(medrxiv, fulltext,
                                                only_highest_version)
    IN
    /\ run.op = "none" \/ (run.op = "backfill" /\ run.pc = "done")
    /\ run' = [op |-> "backfill", kind |-> op, todo |-> todo,
               pc |-> IF todo = {} THEN "done" ELSE "yielded",
               held |-> IF todo = {} THEN 0 ELSE 1,
               peak |-> 1, inflight |-> FALSE, ok |-> FALSE]
    /\ UNCHANGED <<catalog, storeVars, assetVars, tinyVars, enrichVars,
                   calls>>

\* the loop body up to its external call: summarizer.summarize(...) or,
\* when the file is not there, requests.get(pdf_url); ok is its outcome
BackfillExternal(ok) ==
    /\ run.op = "backfill"
    /\ run.pc = "yielded"
    /\ run' = [run EXCEPT
                 !.pc = "external",
                 !.inflight = \/ run.kind = "update_summaries"
                              \/ PdfName(NextRow(run.todo).doi) \notin files,
                 !.ok = ok \/ run.kind = "update_summaries"]
    /\ UNCHANGED <<catalog, storeVars, assetVars, tinyVars, enrichVars,
                   calls>>

\* the rest of the loop body: save_summary, or the file and the fulltext
\* upsert, each in a `with self.connection()` block of its own; a failed
\* PDF request returns before it
BackfillStore ==
    LET publication == NextRow(run.todo)
        s == Summarize(summaries, publication, TRUE, FALSE)
        f == FetchPdfFromMedrXiv(PGStore, publication.doi, publication.id,
                                 TRUE, run.ok)
        connects == run.kind = "update_summaries" \/ f.ret # None
    IN
    /\ run.op = "backfill"
    /\ run.pc = "external"
    /\ IF run.kind = "update_summaries"
       THEN /\ Len(s.sums) <= MaxSummaries
            /\ summaries' = s.sums
            /\ UNCHANGED <<storeVars, assetVars>>
       ELSE /\ SetPGStore(f.st)
            /\ UNCHANGED summaries
    /\ run' = [run EXCEPT
                 !.pc = "next", !.inflight = FALSE,
                 !.peak = IF connects THEN Max(@, run.held + 1) ELSE @]
    /\ UNCHANGED <<catalog, tinyVars, calls>>

\* the next next() of the generator: another row, or the end of the cursor
\* and of the connection block
BackfillNext ==
    LET rest == run.todo \ {NextRow(run.todo)} IN
    /\ run.op = "backfill"
    /\ run.pc = "next"
    /\ run' = [run EXCEPT
                 !.todo = rest,
                 !.pc = IF rest = {} THEN "done" ELSE "yielded",
                 !.held = IF rest = {} THEN 0 ELSE @]
    /\ UNCHANGED <<catalog, storeVars, assetVars, tinyVars, enrichVars,
                   calls>>

NextConnections ==
    \/ \E op \in BackfillOps, only_highest_version \in BOOLEAN :
          BackfillStart(op, only_highest_version)
    \/ \E ok \in BOOLEAN : BackfillExternal(ok)
    \/ BackfillStore
    \/ BackfillNext

SpecConnections == InitMissing /\ [][NextConnections]_vars

\* C26: during summary backfill and the batch PDF fetch no connection is
\* checked out while an external call is in flight or across iterations of
\* the loop, a run never needs more than one connection at a time, and
\* every connection is back in the pool when the run is done.
C26_ConnectionPerRoundTrip ==
    run.op = "backfill" =>
        /\ run.inflight => run.held = 0
        /\ run.pc \in {"yielded", "next"} => run.held = 0
        /\ run.peak <= 1
        /\ run.pc = "done" => run.held = 0

\* ========================================================================
\* Frame of upsert among the operations on a filled PostgreSQL store
\* (PersistentStorage.py 468-505, 658-659)
\* ========================================================================

\* PublicationStorage.delete(publication_id): raise NotImplementedError()
Delete(publication_id) ==
    /\ run' = [op |-> "delete", id |-> publication_id,
               raised |-> "NotImplementedError"]
    /\ UNCHANGED <<catalog, storeVars, assetVars, tinyVars, enrichVars,
                   calls>>

InitFrame ==
    /\ catalog \in {c \in Catalogs : Len(c) <= MaxArchive}
    /\ fulltext = {}
    /\ files = {}
    /\ summaries = <<>>
    /\ docs = <<>>
    /\ calls = <<NoCall, NoCall>>
    /\ run = NoRun
    /\ medrxiv = PGIngest(catalog).rows
    /\ medrxivSeq = PGIngest(catalog).seq

\* the records handed to upsert here: both versions of one doi
FrameInputs == {p \in UpsertInputs : p.doi = DoiA}

NextFrame ==
    \/ \E p \in FrameInputs : Upsert(p)
    \/ \E publication \in medrxiv : Delete(publication.id)
    \/ \E publication \in medrxiv :
          FetchPdfCall(publication, TRUE, TRUE)
    \/ UpdateSummaries

SpecFrame == InitFrame /\ [][NextFrame]_vars

\* every row of before is in after with its id, doi and version
RowsKept(before, after) ==
    \A e \in before :
        \E x \in after : x.id = e.id /\ SameIdentity(x, e)

\* C27: upsert(r) creates or modifies only the row of identity
\* (r.doi, r.version): every other publication row, every fulltext row and
\* every enrichment row is unchanged; doi, version and id of an existing
\* row never change; no operation removes a publication row, and the
\* number of stored publications never decreases.
C27_UpsertFrame ==
    [][/\ RowsKept(medrxiv, medrxiv')
       /\ Cardinality(medrxiv') >= Cardinality(medrxiv)
       /\ \A p \in FrameInputs :
             Upsert(p) =>
                 /\ {e \in medrxiv : ~SameIdentity(e, p)}
                        = {e \in medrxiv' : ~SameIdentity(e, p)}
                 /\ Cardinality(Conflicting(medrxiv', p)) = 1
                 /\ UNCHANGED <<fulltext, files, summaries, docs>>
      ]_vars

\* an upsert has modified a stored row while another version of its doi,
\* a fulltext row and a summary were in the store
C27_Witness ==
    /\ calls[2].op = "upsert"
    /\ calls[2].changed
    /\ calls[2].ret < medrxivSeq - 1
    /\ \E e \in medrxiv : e.doi = calls[2].arg.doi
                          /\ e.version # calls[2].arg.version
    /\ fulltext # {}
    /\ summaries # <<>>

\* ========================================================================
\* Where the PDF files are (PGMedrXivScraper.py 148-189, MedrXivScraper.py
\* 118-153, PersistentStorage.py 644-656). files holds the names in the
\* directory the fetch writes to. run holds the environment of the
\* process: whether "./library" of the working directory is the directory
\* configured as PUBLICATION_DIR.
\* ========================================================================
Library == <<".", "library">>
PublicationDir == <<"PUBLICATION_DIR">>

\* the settings dict keys read by the scrapers (Settings.py 79-116)
SettingsKeys == {"PUBLICATION_DIR"}

\* Settings has no method get: s.get is looked up through __getattr__ in
\* the settings dict and raises AttributeError (Settings.py 73-77)
SettingsGetRaises == "get" \notin SettingsKeys

\* lines 155-159: try: path = s.get('PUBLICATION_DIR', path) except: pass
DownloadDir(path) == IF SettingsGetRaises THEN path ELSE PublicationDir

\* get_pdf_path (644-656): os.path.join(self.storage_directory, filename)
GetPdfPath(ft, publication_id) ==
    LET result == {x \in ft : x.id_publication = publication_id} IN
    IF result = {} THEN <<>>
    ELSE <<PublicationDir, (CHOOSE x \in result : TRUE).pdf_filename>>

\* os.path.isfile(path) in environment env
IsFile(path, env) ==
    /\ path # <<>>
    /\ path[2] \in files
    /\ \/ path[1] = DownloadDir(Library)
       \/ env.library_is_publication_dir

InitStorage ==
    /\ catalog \in Catalogs
    /\ fulltext = {}
    /\ files = {}
    /\ summaries = <<>>
    /\ calls = <<NoCall, NoCall>>
    /\ run \in [op : {"environment"}, library_is_publication_dir : BOOLEAN]
    /\ \/ /\ docs = TinyIngest(<<>>, catalog, 1)
          /\ medrxiv = {}
          /\ medrxivSeq = 1
       \/ /\ docs = <<>>
          /\ LET st == InsertIntoDatabase(
                           [rows |-> {}, seq |-> 1, fulltext |-> {},
                            files |-> {}], catalog, FALSE, {})
             IN /\ medrxiv = st.rows
                /\ medrxivSeq = st.seq

NextStorage ==
    \/ \E publication \in medrxiv, upsert \in BOOLEAN, netOk \in BOOLEAN :
           FetchPdfCall(publication, upsert, netOk)
    \/ \E doc_id \in DOMAIN docs, netOk \in BOOLEAN :
           TinyFetchPdfCall(doc_id, netOk)

SpecStorage == InitStorage /\ [][NextStorage]_vars

\* C28: in every reachable state each fulltext link refers to a file that
\* exists in the storage directory (the link being written only after the
\* file was written or found).
C28_LinkedFileExists ==
    /\ \A x \in fulltext : IsFile(GetPdfPath(fulltext, x.id_publication), run)
    /\ \A i \in DOMAIN docs :
          "pdf_path" \in DOMAIN docs[i] =>
              IsFile(<<DownloadDir(Library), docs[i].pdf_path>>, run)

\* the stored publications that have a PDF linked, as <<doi, version, file>>
Linked ==
    {<<p.doi, p.version, x.pdf_filename>> :
        <<p, x>> \in {y \in medrxiv \X fulltext : y[1].id = y[2].id_publication}}
    \cup {<<docs[i].doi, docs[i].version, docs[i].pdf_path>> :
            i \in {j \in DOMAIN docs : "pdf_path" \in DOMAIN docs[j]}}

\* C29: two stored publications with different identities never share a PDF
\* filename: skip-on-exists never links a publication to a file that was
\* downloaded for a different doi or for another version of the same doi.
C29_NoSharedPdfFilename ==
    \A a \in Linked, b \in Linked :
        <<a[1], a[2]>> # <<b[1], b[2]>> => a[3] # b[3]
====
